---- MODULE Spec2Model ----
(***************************************************************************)
(* Model of kopium's schema analyzer (src/src/analyzer.rs) and of the      *)
(* container catalog it fills (src/src/output.rs).                         *)
(*                                                                         *)
(* Strings are TLA+ strings; an Option<T> is a sequence of length <= 1     *)
(* (None == <<>>, Some(x) == <<x>>); a BTreeMap<String, T> is a sequence   *)
(* of [key, value] records kept in ascending byte order of the keys; a     *)
(* Result<T> is [ok |-> TRUE, val |-> v] or [ok |-> FALSE, err |-> msg].   *)
(***************************************************************************)
EXTENDS Integers, Sequences, FiniteSets, TLC

VARIABLES schema, kind, cfg, pc, result, catalog, overrides

vars == <<schema, kind, cfg, pc, result, catalog, overrides>>

----------------------------------------------------------------------------
(* Option, Result *)

None == <<>>

Some(x) == <<x>>

IsSome(o) == Len(o) = 1

IsNone(o) == Len(o) = 0

Unwrap(o) == o[1]

Ok(v) == [ok |-> TRUE, val |-> v]

Err(msg) == [ok |-> FALSE, err |-> msg]

----------------------------------------------------------------------------
(* Characters and strings *)

UpperChars == "ABCDEFGHIJKLMNOPQRSTUVWXYZ"

LowerChars == "abcdefghijklmnopqrstuvwxyz"

DigitChars == "0123456789"

\* the ASCII characters the model's strings use, in ascending byte order
ByteOrder == "-0123456789ABCDEFGHIJKLMNOPQRSTUVWXYZ_abcdefghijklmnopqrstuvwxyz"

CharAt(s, i) == SubSeq(s, i, i)

IndexIn(c, chars) ==
    IF \E i \in 1..Len(chars) : CharAt(chars, i) = c
    THEN CHOOSE i \in 1..Len(chars) : CharAt(chars, i) = c
    ELSE 0

IsUpper(c) == IndexIn(c, UpperChars) > 0

IsLower(c) == IndexIn(c, LowerChars) > 0

IsAlphanumeric(c) == IsUpper(c) \/ IsLower(c) \/ IndexIn(c, DigitChars) > 0

ToUpperChar(c) == IF IsLower(c) THEN CharAt(UpperChars, IndexIn(c, LowerChars)) ELSE c

ToLowerChar(c) == IF IsUpper(c) THEN CharAt(LowerChars, IndexIn(c, UpperChars)) ELSE c

RECURSIVE Lowercase(_)
Lowercase(s) ==
    IF Len(s) = 0 THEN "" ELSE ToLowerChar(CharAt(s, 1)) \o Lowercase(SubSeq(s, 2, Len(s)))

\* heck's capitalize: first character upper-cased, the rest lower-cased
Capitalize(s) ==
    IF Len(s) = 0 THEN "" ELSE ToUpperChar(CharAt(s, 1)) \o Lowercase(SubSeq(s, 2, Len(s)))

\* str::contains
Contains(s, sub) ==
    \E i \in 1..(Len(s) - Len(sub) + 1) : SubSeq(s, i, i + Len(sub) - 1) = sub

\* Ord for String: lexicographic on bytes
RECURSIVE StrLess(_, _)
StrLess(a, b) ==
    IF Len(b) = 0 THEN FALSE
    ELSE IF Len(a) = 0 THEN TRUE
    ELSE LET ra == IndexIn(CharAt(a, 1), ByteOrder)
             rb == IndexIn(CharAt(b, 1), ByteOrder)
         IN IF ra # rb THEN ra < rb
            ELSE StrLess(SubSeq(a, 2, Len(a)), SubSeq(b, 2, Len(b)))

\* one alphanumeric word of heck's transform: split at lower->Upper and at
\* the last capital of an acronym, capitalize every piece
RECURSIVE WordScan(_, _, _, _, _)
WordScan(w, i, init, mode, acc) ==
    IF i > Len(w) THEN acc
    ELSE IF i = Len(w) THEN acc \o Capitalize(SubSeq(w, init, Len(w)))
    ELSE LET c == CharAt(w, i)
             next == CharAt(w, i + 1)
             next_mode == IF IsLower(c) THEN "Lowercase"
                          ELSE IF IsUpper(c) THEN "Uppercase" ELSE mode
         IN IF next_mode = "Lowercase" /\ IsUpper(next)
            THEN WordScan(w, i + 1, i + 1, "Boundary", acc \o Capitalize(SubSeq(w, init, i)))
            ELSE IF mode = "Uppercase" /\ IsUpper(c) /\ IsLower(next)
            THEN WordScan(w, i + 1, i, "Boundary", acc \o Capitalize(SubSeq(w, init, i - 1)))
            ELSE WordScan(w, i + 1, init, next_mode, acc)

\* s.split(|c| !c.is_alphanumeric()), each word transformed and concatenated
RECURSIVE CamelFrom(_, _, _, _)
CamelFrom(s, i, start, acc) ==
    IF i > Len(s) THEN WordScan(SubSeq(s, start, Len(s)), 1, 1, "Boundary", acc)
    ELSE IF IsAlphanumeric(CharAt(s, i)) THEN CamelFrom(s, i + 1, start, acc)
    ELSE CamelFrom(s, i + 1, i + 1, WordScan(SubSeq(s, start, i - 1), 1, 1, "Boundary", acc))

to_upper_camel_case(s) == CamelFrom(s, 1, 1, "")

----------------------------------------------------------------------------
(* JSONSchemaProps (the fields the analyzer reads and the override rules     *)
(* compare), Config, Container, Member                                     *)

EmptySchema ==
    [type_ |-> None, properties |-> None, additional_properties |-> None,
     items |-> None, required |-> None, enum_ |-> None, format |-> None,
     description |-> None, x_kubernetes_int_or_string |-> None,
     x_kubernetes_preserve_unknown_fields |-> None, one_of |-> None,
     additional_items |-> None, all_of |-> None, any_of |-> None, not |-> None,
     x_kubernetes_list_type |-> None, x_kubernetes_map_type |-> None]

\* JSONSchemaPropsOrBool
PropsOrBool_Schema(s) == [tag |-> "Schema", s |-> s]

PropsOrBool_Bool(b) == [tag |-> "Bool", b |-> b]

\* JSONSchemaPropsOrArray
PropsOrArray_Schema(s) == [tag |-> "Schema", s |-> s]

PropsOrArray_JSONSchemas(ss) == [tag |-> "JSONSchemas", ss |-> ss]

\* serde_json::Value as found in `enum`
JsonString(s) == [t |-> "String", text |-> s]

\* repr: "u64" for a non-negative integer, "i64" for a negative one, "f64" for a float
JsonNumber(repr, text) == [t |-> "Number", repr |-> repr, text |-> text]

JsonBool(b) == [t |-> "Bool", text |-> IF b THEN "true" ELSE "false"]

JsonNull == [t |-> "Null", text |-> "null"]

Member(name, type_, serde_annot, docs) ==
    [name |-> name, type_ |-> type_, serde_annot |-> serde_annot,
     extra_annot |-> <<>>, docs |-> docs]

Container(name, members, level, docs, is_enum) ==
    [name |-> name, level |-> level, members |-> members, docs |-> docs,
     is_enum |-> is_enum, supports_derive_default |-> None]

\* Overrides::default(): no bucket in the index, no rule to scan
NoOverrides == [property_index |-> [n \in {} |-> <<>>], property_rules |-> <<>>]

\* IGNORED_KEYS without a key in it
IGNORED_KEYS_none == {}

\* const IGNORED_KEYS
IGNORED_KEYS == {"metadata", "apiVersion", "kind"}

\* MapType::name ignoring the configured kind
MapTypeName_btree(m) == "BTreeMap"

\* MapType::name
MapTypeName(m) == IF m = "BTreeMap" THEN "BTreeMap" ELSE "HashMap"

\* Option<String>::unwrap_or_default
StrOrDefault(o) == IF IsSome(o) THEN Unwrap(o) ELSE ""

\* Option<bool>::unwrap_or(false)
BoolOrFalse(o) == IF IsSome(o) THEN Unwrap(o) ELSE FALSE

\* BTreeMap::get(key).is_some()
HasKey(props, key) == \E i \in 1..Len(props) : props[i].key = key

\* Vec<String>::contains
VecContains(v, x) == \E i \in 1..Len(v) : v[i] = x

----------------------------------------------------------------------------
(* Output: the catalog of containers *)

\* Output::insert: insert-or-ignore by container name
Insert(out, c) ==
    IF \E i \in 1..Len(out) : out[i].name = c.name THEN out ELSE Append(out, c)

\* Output::extend: every container of `other` inserted in order
RECURSIVE Extend(_, _)
Extend(out, other) ==
    IF Len(other) = 0 THEN out
    ELSE Extend(Insert(out, Head(other)), Tail(other))

----------------------------------------------------------------------------
(* Scalar types *)

extract_date_type(value) ==
    IF IsSome(value.format)
    THEN LET f == Unwrap(value.format)
         IN IF f = "date" THEN Ok("NaiveDate")
            ELSE IF f = "date-time" THEN Ok("DateTime<Utc>")
            ELSE Err("unknown date " \o f)
    ELSE Ok("String")

extract_number_type(value) ==
    Ok(IF IsSome(value.format)
       THEN LET f == Unwrap(value.format)
            IN IF f = "float" THEN "f32" ELSE "f64"
       ELSE "f64")

extract_integer_type(value) ==
    Ok(IF IsSome(value.format)
       THEN LET f == Unwrap(value.format)
            IN CASE f = "int8" -> "i8"
                 [] f = "int16" -> "i16"
                 [] f = "int32" -> "i32"
                 [] f = "int64" -> "i64"
                 [] f = "int128" -> "i128"
                 [] f = "uint8" -> "u8"
                 [] f = "uint16" -> "u16"
                 [] f = "uint32" -> "u32"
                 [] f = "uint64" -> "u64"
                 [] f = "uint128" -> "u128"
                 [] OTHER -> "i64"
       ELSE "i64")

----------------------------------------------------------------------------
(* Well-known shapes *)

ConditionKeys == {"type", "status", "reason", "message", "lastTransitionTime"}

ObjectRefKeys == {"apiVersion", "fieldPath", "kind", "name", "namespace",
                  "resourceVersion", "uid"}

\* is_conditions reading the properties of the array node, not of its items
is_conditions_of_array(value) ==
    /\ IsSome(value.properties)
    /\ \A k \in ConditionKeys : HasKey(Unwrap(value.properties), k)

is_conditions(value) ==
    /\ IsSome(value.items)
    /\ Unwrap(value.items).tag = "Schema"
    /\ LET props == Unwrap(value.items).s
       IN /\ IsSome(props.properties)
          /\ \A k \in ConditionKeys : HasKey(Unwrap(props.properties), k)

is_object_ref(value) ==
    /\ IsSome(value.properties)
    /\ LET p == Unwrap(value.properties)
       IN /\ Len(p) = 7
          /\ \A k \in ObjectRefKeys : HasKey(p, k)

is_object_ref_list(value) ==
    /\ IsSome(value.items)
    /\ Unwrap(value.items).tag = "Schema"
    /\ is_object_ref(Unwrap(value.items).s)

----------------------------------------------------------------------------
(* Member types *)

RECURSIVE array_recurse_for_type(_, _, _, _, _)
RECURSIVE extract_object_type(_, _, _, _)
RECURSIVE resolve_additional_properties(_, _, _, _)

\* format!("Vec<{}>", t?) at the given recursion level
VecOfType(t, level) ==
    IF t.ok THEN Ok(<<"Vec<" \o t.val \o ">", level>>) ELSE t

\* format!("Vec<{}>", array_type) at the recursion level of the inner array
VecOfArray(r) ==
    IF r.ok THEN Ok(<<"Vec<" \o r.val[1] \o ">", r.val[2]>>) ELSE r

\* Ok(<<type, recurse level>>) or Err
array_recurse_for_type(value, stack, key, level, c) ==
    IF IsNone(value.items) THEN Err("missing items in array type")
    ELSE IF Unwrap(value.items).tag # "Schema"
    THEN Err("only support single schema in array " \o key)
    ELSE
    LET s == Unwrap(value.items).s
        inner_array_type == StrOrDefault(s.type_)
    IN  IF IsNone(s.type_) /\ s.x_kubernetes_preserve_unknown_fields = Some(TRUE)
        THEN Ok(<<"Vec<serde_json::Value>", level>>)
        ELSE IF inner_array_type = "object"
        THEN VecOfType(extract_object_type(s, stack, key, c), level)
        ELSE IF inner_array_type = "string" THEN Ok(<<"Vec<String>", level>>)
        ELSE IF inner_array_type = "boolean" THEN Ok(<<"Vec<bool>", level>>)
        ELSE IF inner_array_type = "date"
        THEN VecOfType(extract_date_type(value), level)
        ELSE IF inner_array_type = "number"
        THEN VecOfType(extract_number_type(value), level)
        ELSE IF inner_array_type = "integer"
        THEN VecOfType(extract_integer_type(value), level)
        ELSE IF inner_array_type = "array"
        THEN IF IsSome(s.items)
             THEN VecOfArray(array_recurse_for_type(s, stack, key, level + 1, c))
             ELSE IF c.relaxed
             THEN Ok(<<MapTypeName(c.map) \o "<String, serde_json::Value>", level>>)
             ELSE Err("Empty inner array in: " \o stack \o " key: " \o key)
        ELSE IF inner_array_type = ""
        THEN IF IsSome(s.x_kubernetes_int_or_string)
             THEN Ok(<<"Vec<IntOrString>", level>>)
             ELSE Err("unknown empty array type for " \o key)
        ELSE Err("unsupported recursive array type \"" \o inner_array_type
                 \o "\" for " \o key)

\* Some(t?) for a type
SomeType(r) == IF r.ok THEN Ok(Some(r.val)) ELSE r

\* Some(array_recurse_for_type(..)?.0)
SomeArrayType(r) == IF r.ok THEN Ok(Some(r.val[1])) ELSE r

\* Ok(Option<String>) or Err
resolve_additional_properties(additional, stack, key, c) ==
    IF additional.tag # "Schema" THEN Ok(None)
    ELSE
    LET s == additional.s
        dict_type == StrOrDefault(s.type_)
    IN  IF dict_type = "string" THEN Ok(Some("String"))
        ELSE IF dict_type = "array"
        THEN SomeArrayType(array_recurse_for_type(s, stack, key, 1, c))
        ELSE IF dict_type = "object"
        THEN SomeType(extract_object_type(s, stack, key, c))
        ELSE IF dict_type = ""
        THEN IF IsSome(s.x_kubernetes_int_or_string) THEN Ok(Some("IntOrString"))
             ELSE IF s.x_kubernetes_preserve_unknown_fields = Some(TRUE)
             THEN Ok(Some("serde_json::Value"))
             ELSE Err("unknown empty dict type for " \o key)
        ELSE IF dict_type = "boolean" THEN Ok(Some("bool"))
        ELSE IF dict_type = "number" THEN SomeType(extract_number_type(s))
        ELSE IF dict_type = "integer" THEN SomeType(extract_integer_type(s))
        ELSE Ok(Some(to_upper_camel_case(dict_type)))

\* the second half of extract_object_type: the type for a resolved dict_key
ObjectTypeOf(dict_key, value, stack, key, c) ==
    IF ~dict_key.ok THEN dict_key
    ELSE IF IsSome(dict_key.val)
    THEN Ok(MapTypeName(c.map) \o "<String, " \o Unwrap(dict_key.val) \o ">")
    ELSE IF ~c.no_object_reference /\ is_object_ref(value)
    THEN Ok("ObjectReference")
    ELSE Ok(stack \o to_upper_camel_case(key))

extract_object_type(value, stack, key, c) ==
    ObjectTypeOf(IF IsSome(value.additional_properties)
                 THEN resolve_additional_properties(Unwrap(value.additional_properties),
                                                    stack, key, c)
                 ELSE IF IsNone(value.properties)
                         /\ BoolOrFalse(value.x_kubernetes_preserve_unknown_fields)
                 THEN Ok(Some("serde_json::Value"))
                 ELSE Ok(None),
                 value, stack, key, c)

----------------------------------------------------------------------------
(* Containers *)

\* the name of one enum variant, or the reason the literal is refused
EnumMemberName(en) ==
    IF en.t = "String" THEN Ok(en.text)
    ELSE IF en.t = "Number"
    THEN IF en.repr # "u64"
         THEN Err("enum member cannot have signed/floating discriminants")
         ELSE Ok(en.text)
    ELSE Err("not handling non-string/int enum outside oneOf block")

RECURSIVE EnumMembers(_, _, _)
EnumMembers(items, i, members) ==
    IF i > Len(items) THEN Ok(members)
    ELSE LET name == EnumMemberName(items[i])
         IN IF ~name.ok THEN name
            ELSE EnumMembers(items, i + 1,
                             Append(members, Member(name.val, "", <<>>, None)))

\* the enum container of the collected members
EnumContainer(members, stack, level, sch, is_enum) ==
    IF ~members.ok THEN members
    ELSE Ok(Container(stack, members.val, level, sch.description, is_enum))

\* analyze_enum_properties without the is_enum mark
analyze_enum_properties_struct(items, stack, level, sch) ==
    EnumContainer(EnumMembers(items, 1, <<>>), stack, level, sch, FALSE)

analyze_enum_properties(items, stack, level, sch) ==
    EnumContainer(EnumMembers(items, 1, <<>>), stack, level, sch, TRUE)

\* the result of a branch that records no array recursion level
Plain(r) == IF r.ok THEN Ok([type |-> r.val, recurse |-> None]) ELSE r

\* the array branch of extract_container for the result r of
\* array_recurse_for_type: well-known lists first, else the recursed type
\* with its level recorded
ArrayMemberType(r, key, value, c) ==
    IF ~r.ok THEN r
    ELSE IF ~c.no_condition /\ key = "conditions" /\ is_conditions(value)
    THEN Ok([type |-> "Vec<Condition>", recurse |-> None])
    ELSE IF ~c.no_object_reference /\ is_object_ref_list(value)
    THEN Ok([type |-> "Vec<ObjectReference>", recurse |-> None])
    ELSE Ok([type |-> r.val[1], recurse |-> Some(r.val[2])])

\* the type of the member made from property (key, value) of `stack`:
\* Ok([type, recurse]) where recurse is Some(level) when the array recursion
\* level of the key is to be recorded, or Err
MemberType(key, value, stack, c) ==
    LET value_type == StrOrDefault(value.type_)
    IN  IF value_type = "object" THEN Plain(extract_object_type(value, stack, key, c))
        ELSE IF value_type = "string"
        THEN IF IsSome(value.enum_)
             THEN Plain(Ok(stack \o to_upper_camel_case(key)))
             ELSE Plain(Ok("String"))
        ELSE IF value_type = "boolean" THEN Plain(Ok("bool"))
        ELSE IF value_type = "date" THEN Plain(extract_date_type(value))
        ELSE IF value_type = "number" THEN Plain(extract_number_type(value))
        ELSE IF value_type = "integer" THEN Plain(extract_integer_type(value))
        ELSE IF value_type = "array"
        THEN ArrayMemberType(array_recurse_for_type(value, stack, key, 1, c),
                             key, value, c)
        ELSE IF value_type = ""
        THEN IF IsSome(value.x_kubernetes_int_or_string) THEN Plain(Ok("IntOrString"))
             ELSE IF \/ value.x_kubernetes_preserve_unknown_fields = Some(TRUE)
                     \/ /\ IsSome(value.one_of)
                        /\ \A i \in 1..Len(Unwrap(value.one_of)) :
                              IsSome(Unwrap(value.one_of)[i].type_)
             THEN Plain(Ok("serde_json::Value"))
             ELSE IF c.relaxed
             THEN Plain(Ok(MapTypeName(c.map) \o "<String, serde_json::Value>"))
             ELSE Err("unknown empty dict type for " \o key)
        ELSE Err("unknown type " \o value_type)

\* the member pushed for a property: bare type when required, Option otherwise
WrapMember(key, value, rust_type, reqs) ==
    IF VecContains(reqs, key)
    THEN Member(key, rust_type, <<>>, value.description)
    ELSE Member(key, "Option<" \o rust_type \o ">",
                <<"default", "skip_serializing_if = \"Option::is_none\"">>,
                value.description)

RECURSIVE ExtractMembers(_, _, _, _, _, _, _)

\* the end of a turn of the loop of extract_container: the member of type t
\* is pushed, its array recursion level recorded, and the loop goes on
PushMember(t, props, i, stack, reqs, c, members, arl) ==
    IF ~t.ok THEN t
    ELSE ExtractMembers(props, i + 1, stack, reqs, c,
             Append(members, WrapMember(props[i].key, props[i].value, t.val.type, reqs)),
             IF IsSome(t.val.recurse)
             THEN (props[i].key :> Unwrap(t.val.recurse)) @@ arl
             ELSE arl)

\* the loop of extract_container over props[i..]:
\* Ok([members, arl]) or Err; arl is array_recurse_level (key -> level)
ExtractMembers(props, i, stack, reqs, c, members, arl) ==
    IF i > Len(props) THEN Ok([members |-> members, arl |-> arl])
    ELSE PushMember(MemberType(props[i].key, props[i].value, stack, c),
                    props, i, stack, reqs, c, members, arl)

\* the container returned by extract_container for the collected members
ContainerOf(r, stack, level, sch) ==
    IF ~r.ok THEN r
    ELSE Ok([container |-> Container(stack, r.val.members, level,
                                     sch.description, FALSE),
             arl |-> r.val.arl])

\* Ok([container, arl]) or Err
extract_container(props, stack, arl, level, sch, c) ==
    ContainerOf(ExtractMembers(props, 1, stack,
                               IF IsSome(sch.required) THEN Unwrap(sch.required)
                               ELSE <<>>,
                               c, <<>>, arl),
                stack, level, sch)

----------------------------------------------------------------------------
(* The recursive descent *)

\* the loop `for _i in 0..recurse` of find_containers: the element schema
\* found `recurse` array levels below `inner`
RECURSIVE UnwrapItems(_, _)
UnwrapItems(inner, recurse) ==
    IF recurse = 0 THEN Ok(inner)
    ELSE IF IsNone(inner.items) THEN Err("could not recurse into vec")
    ELSE IF Unwrap(inner.items).tag # "Schema"
    THEN Err("only handling single type in arrays")
    ELSE UnwrapItems(Unwrap(inner.items).s, recurse - 1)

RECURSIVE analyze_(_, _, _, _, _, _)
RECURSIVE FindLoop(_, _, _, _, _, _, _, _)

\* the schema find_containers hands to analyze_ for the property (key, value)
\* of type object or array: Ok(Some(schema)), Ok(None) when the property is
\* passed over, or Err
RecurseInto(key, value, arl) ==
    IF StrOrDefault(value.type_) = "object"
    THEN LET ap == value.additional_properties
             unpack == /\ IsSome(ap)
                       /\ Unwrap(ap).tag = "Schema"
                       /\ StrOrDefault(Unwrap(ap).s.type_) = "array"
                       /\ IsSome(Unwrap(ap).s.items)
                       /\ Unwrap(Unwrap(ap).s.items).tag = "Schema"
         IN IF unpack THEN Ok(Some(Unwrap(Unwrap(ap).s.items).s))
            ELSE Ok(Some(value))
    ELSE IF key \in DOMAIN arl
    THEN LET inner == UnwrapItems(value, arl[key])
         IN IF ~inner.ok THEN inner ELSE Ok(Some(inner.val))
    ELSE Ok(None)

\* analyze_(target, next_key, next_stack, level + 1, &mut results, cfg)?
Descend(target, next_key, next_stack, level, results, c) ==
    IF ~target.ok THEN target
    ELSE IF IsNone(target.val) THEN Ok(results)
    ELSE analyze_(Unwrap(target.val), next_key, next_stack, level + 1, results, c)

\* results.insert(new_result) for the enum made by analyze_enum_properties
InsertEnum(new_result, results) ==
    IF ~new_result.ok THEN new_result ELSE Ok(Insert(results, new_result.val))

\* one turn of the loop of find_containers: Ok(results) or Err
FindStep(key, value, stack, arl, level, sch, c, results) ==
    LET next_key == to_upper_camel_case(key)
        next_stack == stack \o next_key
        value_type == StrOrDefault(value.type_)
    IN  IF level = 0 /\ key \in IGNORED_KEYS THEN Ok(results)
        ELSE IF value_type \in {"object", "array"}
        THEN Descend(RecurseInto(key, value, arl), next_key, next_stack, level,
                     results, c)
        ELSE IF value_type = "" THEN Ok(results)
        ELSE IF IsSome(value.enum_)
        THEN InsertEnum(analyze_enum_properties(Unwrap(value.enum_), next_stack,
                                                level, sch),
                        results)
        ELSE Ok(results)

\* the `?` of a turn: an error ends the loop, otherwise the next property
FindNext(r, props, i, stack, arl, level, sch, c) ==
    IF ~r.ok THEN r ELSE FindLoop(props, i + 1, stack, arl, level, sch, c, r.val)

\* the loop of find_containers over props[i..]; Ok(results) or Err
FindLoop(props, i, stack, arl, level, sch, c, results) ==
    IF i > Len(props) THEN Ok(results)
    ELSE FindNext(FindStep(props[i].key, props[i].value, stack, arl, level, sch,
                           c, results),
                  props, i, stack, arl, level, sch, c)

find_containers(props, stack, arl, level, sch, c) ==
    FindLoop(props, 1, stack, arl, level, sch, c, <<>>)

\* what the first half of analyze_ leaves behind: the catalog, the array
\* recursion levels, and whether analyze_ has returned early
AnalyzeState(res, arl, returned) ==
    Ok([results |-> res, arl |-> arl, returned |-> returned])

\* results.insert(c) for the container made by extract_container
InsertContainer(ec, results) ==
    IF ~ec.ok THEN ec
    ELSE AnalyzeState(Insert(results, ec.val.container), ec.val.arl, FALSE)

\* analyze_(s, current, camel_cased_stack, level, results, cfg)? on a map value
AfterInner(r) == IF ~r.ok THEN r ELSE AnalyzeState(r.val, <<>>, FALSE)

\* the first half of analyze_: the container of this node, when it has one
CreateContainer(sch, current, camel_cased_stack, level, results, c) ==
    LET props == IF IsSome(sch.properties) THEN Unwrap(sch.properties) ELSE <<>>
        ap == sch.additional_properties
        is_map == IsSome(ap) /\ Unwrap(ap).tag = "Schema"
        s == Unwrap(ap).s
    IN  IF StrOrDefault(sch.type_) # "object" THEN AnalyzeState(results, <<>>, FALSE)
        ELSE IF is_map /\ IsNone(s.properties)
        THEN IF StrOrDefault(s.type_) = "object"
             THEN AfterInner(analyze_(s, current, camel_cased_stack, level, results, c))
             ELSE IF StrOrDefault(s.type_) # "" THEN AnalyzeState(results, <<>>, TRUE)
             ELSE AnalyzeState(results, <<>>, FALSE)
        ELSE IF ~is_map /\ Len(props) = 0
                /\ BoolOrFalse(sch.x_kubernetes_preserve_unknown_fields)
        THEN AnalyzeState(results, <<>>, TRUE)
        ELSE InsertContainer(
                 extract_container(IF is_map THEN Unwrap(s.properties) ELSE props,
                                   camel_cased_stack, <<>>, level, sch, c),
                 results)

\* MergeExtras with a plain Vec append in place of the deduplicating extend
MergeExtras_append(results, extras) == results \o extras

\* results.extend(extras) at the end of analyze_
MergeExtras(results, extras) == Extend(results, extras)

\* the `?` on find_containers and the merge of what it found
AfterFind(extras, results) ==
    IF ~extras.ok THEN extras ELSE Ok(MergeExtras(results, extras.val))

\* the second half of analyze_: the containers below this node
FindExtras(made, sch, camel_cased_stack, level, c) ==
    IF ~made.ok THEN made
    ELSE IF made.val.returned THEN Ok(made.val.results)
    ELSE LET ap == sch.additional_properties
             extra_props ==
                 IF IsSome(ap) /\ Unwrap(ap).tag = "Schema"
                 THEN (IF IsSome(Unwrap(ap).s.properties)
                       THEN Unwrap(Unwrap(ap).s.properties) ELSE <<>>)
                 ELSE (IF IsSome(sch.properties) THEN Unwrap(sch.properties) ELSE <<>>)
         IN AfterFind(find_containers(extra_props, camel_cased_stack, made.val.arl,
                                      level, sch, c),
                      made.val.results)

\* Ok(results) or Err
analyze_(sch, current, stack, level, results, c) ==
    FindExtras(CreateContainer(sch, current, to_upper_camel_case(stack), level,
                               results, c),
               sch, to_upper_camel_case(stack), level, c)

\* Ok(catalog) or Err
analyze(sch, k, c) == analyze_(sch, "", k, 0, <<>>, c)

----------------------------------------------------------------------------
(* Input schemas *)

\* BTreeMap::insert: the entries stay in ascending key order
RECURSIVE BTreeInsert(_, _, _)
BTreeInsert(m, key, value) ==
    IF Len(m) = 0 THEN <<[key |-> key, value |-> value]>>
    ELSE IF Head(m).key = key THEN <<[key |-> key, value |-> value]>> \o Tail(m)
    ELSE IF StrLess(key, Head(m).key) THEN <<[key |-> key, value |-> value]>> \o m
    ELSE <<Head(m)>> \o BTreeInsert(Tail(m), key, value)

\* the map that holds `value` under every key of the sequence `keys`
RECURSIVE BTreeOfKeys(_, _)
BTreeOfKeys(keys, value) ==
    IF Len(keys) = 0 THEN <<>>
    ELSE BTreeInsert(BTreeOfKeys(Tail(keys), value), Head(keys), value)

Typed(t) == [EmptySchema EXCEPT !.type_ = Some(t)]

WithFormat(sch, f) == [sch EXCEPT !.format = Some(f)]

WithEnum(sch, lits) == [sch EXCEPT !.enum_ = Some(lits)]

\* type: object with the given properties and required list
Object(props, req) ==
    [Typed("object") EXCEPT !.properties = Some(props), !.required = req]

\* type: array, items: sch
ArrayOf(sch) == [Typed("array") EXCEPT !.items = Some(PropsOrArray_Schema(sch))]

\* type: object, additionalProperties: sch
MapOf(sch) ==
    [Typed("object") EXCEPT !.additional_properties = Some(PropsOrBool_Schema(sch))]

RECURSIVE NestedArray(_, _)
NestedArray(d, sch) == IF d = 0 THEN sch ELSE ArrayOf(NestedArray(d - 1, sch))

\* bounds of the input space
MaxArrayDepth == 2

MaxEnumLen == 3

EnumPool == <<"In", "NotIn", "Exists", "DoesNotExist", "Gt", "Lt">>

\* the first n literals of the pool (cyclically), as JSON strings
EnumLits(n) == [i \in 1..n |-> JsonString(EnumPool[((i - 1) % Len(EnumPool)) + 1])]

Str == Typed("string")

ScalarLeaves ==
    {Str, Typed("boolean"), Typed("integer"), WithFormat(Typed("integer"), "int32"),
     Typed("number"), WithFormat(Typed("number"), "float"),
     WithFormat(Typed("date"), "date-time")}

EnumLeaves ==
    {WithEnum(Str, EnumLits(n)) : n \in 1..MaxEnumLen}
    \cup {WithEnum(Str, <<JsonString("In"), JsonNumber("i64", "-1")>>),
          WithEnum(Typed("integer"), <<JsonNumber("u64", "301"), JsonNumber("u64", "302")>>),
          WithEnum(Str, <<JsonString("In"), JsonNumber("u64", "301")>>),
          WithEnum(Typed("number"), <<JsonNumber("f64", "1.5")>>),
          WithEnum(Str, <<JsonBool(TRUE)>>),
          WithEnum(Str, <<JsonNull>>)}

UntypedLeaves ==
    {EmptySchema,
     [EmptySchema EXCEPT !.x_kubernetes_int_or_string = Some(TRUE)],
     [EmptySchema EXCEPT !.x_kubernetes_preserve_unknown_fields = Some(TRUE)],
     [EmptySchema EXCEPT !.one_of = Some(<<Str, Typed("array")>>)]}

\* shapes the analyzer has no rule for: unknown type, array without items,
\* tuple-typed array
UnsupportedLeaves ==
    {Typed("weird"), Typed("array"),
     [Typed("array") EXCEPT !.items = Some(PropsOrArray_JSONSchemas(<<Str, Str>>))]}

ObjectRefSchema ==
    Object(BTreeOfKeys(<<"apiVersion", "fieldPath", "kind", "name", "namespace",
                         "resourceVersion", "uid">>, Str), None)

ConditionSchema ==
    Object(BTreeOfKeys(<<"lastTransitionTime", "message", "observedGeneration",
                         "reason", "status", "type">>, Str), None)

StatusProps == BTreeOfKeys(<<"id", "message", "status">>, Str)

AllRequired == Some(<<"id", "message", "status">>)

ObjectLeaves ==
    {Typed("object"),
     [Typed("object") EXCEPT !.x_kubernetes_preserve_unknown_fields = Some(TRUE)],
     ObjectRefSchema, ConditionSchema,
     Object(StatusProps, AllRequired), Object(StatusProps, Some(<<"id">>)),
     [EmptySchema EXCEPT !.properties = Some(StatusProps), !.required = AllRequired],
     Object(BTreeInsert(BTreeInsert(<<>>, "kind", WithEnum(Str, EnumLits(2))),
                        "operator", WithEnum(Str, EnumLits(2))), Some(<<"operator">>)),
     Object(BTreeInsert(<<>>, "mounts", ArrayOf(Typed("array"))), None)}

Elements == ScalarLeaves \cup EnumLeaves \cup UntypedLeaves \cup UnsupportedLeaves
            \cup ObjectLeaves

\* the schemas a property can have
Values ==
    Elements
    \cup {NestedArray(d, e) : d \in 1..MaxArrayDepth, e \in Elements}
    \cup {MapOf(e) : e \in Elements}
    \cup {MapOf(ArrayOf(e)) : e \in Elements}
    \cup {ArrayOf(MapOf(e)) : e \in Elements}
    \cup {MapOf(MapOf(e)) : e \in Elements}

RootKeys == {"zone", "conditions", "kind"}

\* values used where two properties are combined
PairValues ==
    {Str, WithEnum(Str, EnumLits(2)), Object(StatusProps, AllRequired),
     ArrayOf(Object(StatusProps, None)), MapOf(Object(StatusProps, AllRequired)),
     ArrayOf(MapOf(Object(BTreeInsert(<<>>, "id", Str), None)))}

RootSchemas ==
    \* one property
    {Object(BTreeInsert(<<>>, k, v), req) :
        k \in RootKeys, v \in Values, req \in {None, Some(<<"zone", "conditions", "kind">>)}}
    \* one property, one level down
    \cup {Object(BTreeInsert(<<>>, "spec", Object(BTreeInsert(<<>>, k, v), req)),
                 Some(<<"spec">>)) :
            k \in RootKeys, v \in Elements,
            req \in {None, Some(<<"zone", "conditions", "kind">>)}}
    \* two properties whose keys have the same camel-cased form
    \cup {Object(BTreeInsert(BTreeInsert(<<>>, "foo_bar", v), "fooBar", w), Some(<<"fooBar">>)) :
            v \in PairValues, w \in PairValues}
    \* the root is a map, or carries no type
    \cup {MapOf(e) : e \in ObjectLeaves}
    \cup {[EmptySchema EXCEPT !.properties = Some(BTreeInsert(<<>>, "zone", v))] :
            v \in PairValues}
    \* a key whose camel-cased form is empty
    \cup {Object(BTreeInsert(<<>>, "-", v), None) : v \in PairValues}
    \* the other keys the root never recurses into
    \cup {Object(BTreeInsert(<<>>, k, v), None) :
            k \in {"metadata", "apiVersion"}, v \in PairValues}

Kinds == {"Agent"}

Configs ==
    [no_condition : BOOLEAN, no_object_reference : BOOLEAN,
     map : {"BTreeMap", "HashMap"}, relaxed : BOOLEAN]

----------------------------------------------------------------------------
(* The program: one call of analyze on an input *)

Init ==
    /\ schema \in RootSchemas
    /\ kind \in Kinds
    /\ cfg \in Configs
    /\ pc = "start"
    /\ result = None
    /\ catalog = <<>>
    /\ overrides = NoOverrides

\* analyze(schema, kind, cfg): the catalog, or the error, is the result
Analyze ==
    /\ pc = "start"
    /\ pc' = "done"
    /\ result' = Some(analyze(schema, kind, cfg))
    /\ UNCHANGED <<schema, kind, cfg, catalog, overrides>>

Next == Analyze

Spec == Init /\ [][Next]_vars

----------------------------------------------------------------------------
(* What the properties below speak about *)

Done == pc = "done"

Succeeded == Done /\ Unwrap(result).ok

Failed == Done /\ ~Unwrap(result).ok

\* the catalog of a successful call
Catalog == Unwrap(result).val

ErrorText == Unwrap(result).err

PropsOf(node) == IF IsSome(node.properties) THEN Unwrap(node.properties) ELSE <<>>

ReqsOf(node) == IF IsSome(node.required) THEN Unwrap(node.required) ELSE <<>>

IsSchemaItem(o) == IsSome(o) /\ Unwrap(o).tag = "Schema"

StartsWith(str, prefix) ==
    Len(str) >= Len(prefix) /\ SubSeq(str, 1, Len(prefix)) = prefix

OptionOf(t) == "Option<" \o t \o ">"

RECURSIVE VecOf(_, _)
VecOf(d, t) == IF d = 0 THEN t ELSE "Vec<" \o VecOf(d - 1, t) \o ">"

\* t, bare or wrapped in Option once
IsBareOrOption(type, t) == type = t \/ type = OptionOf(t)

\* the type of a member: t when its key is required, Option<t> otherwise
Wrapped(t, key, reqs) == IF VecContains(reqs, key) THEN t ELSE OptionOf(t)

\* the schema node whose properties describe the struct found at a value:
\* the value itself, or the node below its map and array wrappers
RECURSIVE StructNodeOf(_)
StructNodeOf(v) ==
    LET t == StrOrDefault(v.type_)
    IN  IF t = "object"
        THEN IF IsSchemaItem(v.additional_properties)
             THEN LET s == Unwrap(v.additional_properties).s
                  IN IF IsSome(s.properties) THEN Some(s) ELSE StructNodeOf(s)
             ELSE IF IsSome(v.properties) THEN Some(v) ELSE None
        ELSE IF t = "array" /\ IsSchemaItem(v.items)
        THEN StructNodeOf(Unwrap(v.items).s)
        ELSE None

\* every struct-declaring node of the tree below v, with the name of its
\* stack and its depth
RECURSIVE Owners(_, _, _)
Owners(v, name, level) ==
    LET n == StructNodeOf(v)
    IN  IF IsNone(n) THEN {}
        ELSE {[name |-> name, node |-> Unwrap(n), level |-> level]}
             \cup UNION {Owners(PropsOf(Unwrap(n))[i].value,
                                name \o to_upper_camel_case(PropsOf(Unwrap(n))[i].key),
                                level + 1) : i \in 1..Len(PropsOf(Unwrap(n)))}

AllOwners == Owners(schema, to_upper_camel_case(kind), 0)

IsStringEnum(v) == StrOrDefault(v.type_) = "string" /\ IsSome(v.enum_)

\* a scalar property with an enum list: the analyzer makes an enum of it
IsEnumSource(v) == StrOrDefault(v.type_) \notin {"object", "array", ""} /\ IsSome(v.enum_)

\* the enums declared by the properties of the owners: <<owner, position>>
EnumSources ==
    UNION {{<<o, i>> : i \in {j \in 1..Len(PropsOf(o.node)) :
                                 IsEnumSource(PropsOf(o.node)[j].value)}} :
           o \in AllOwners}

EnumNameOf(o, i) == o.name \o to_upper_camel_case(PropsOf(o.node)[i].key)

\* no other node of the schema yields a container of this name
UniqueName(name) ==
    Cardinality({o \in AllOwners : o.name = name})
    + Cardinality({e \in EnumSources : EnumNameOf(e[1], e[2]) = name}) = 1

InCatalog(name) == \E i \in 1..Len(Catalog) : Catalog[i].name = name

ContainerNamed(name) == Catalog[CHOOSE i \in 1..Len(Catalog) : Catalog[i].name = name]

\* the catalog holds the struct made from the properties of owner o
Realized(o) ==
    /\ UniqueName(o.name)
    /\ InCatalog(o.name)
    /\ ~ContainerNamed(o.name).is_enum
    /\ Len(ContainerNamed(o.name).members) = Len(PropsOf(o.node))
    /\ \A i \in 1..Len(PropsOf(o.node)) :
          ContainerNamed(o.name).members[i].name = PropsOf(o.node)[i].key

RealizedOwners == {o \in AllOwners : Realized(o)}

----------------------------------------------------------------------------
----------------------------------------------------------------------------
\* the member made from property i of owner o
MemberOf(o, i) == ContainerNamed(o.name).members[i]

KeyOf(o, i) == PropsOf(o.node)[i].key

ValueOf(o, i) == PropsOf(o.node)[i].value

\* the property is one the root never recurses into
Ignored(o, i) == o.level = 0 /\ KeyOf(o, i) \in IGNORED_KEYS

IsOption(t) == StartsWith(t, "Option<")

\* the properties of owner o, as positions
PropIndex(o) == 1..Len(PropsOf(o.node))

(* C3 - Required/optional boundary: the member made from a property is      *)
(* not wrapped in Option when the node that declares the property lists    *)
(* its key in `required`, and is wrapped exactly once otherwise.           *)
C3_RequiredBoundary ==
    Succeeded =>
        \A o \in RealizedOwners : \A i \in PropIndex(o) :
            IF VecContains(ReqsOf(o.node), KeyOf(o, i))
            THEN ~IsOption(MemberOf(o, i).type_)
            ELSE /\ IsOption(MemberOf(o, i).type_)
                 /\ ~IsOption(SubSeq(MemberOf(o, i).type_, 8, Len(MemberOf(o, i).type_)))

\* additionalProperties directly carries properties {id, message, status},
\* all strings, all required
IsStatusMap(v) ==
    /\ StrOrDefault(v.type_) = "object"
    /\ IsSchemaItem(v.additional_properties)
    /\ Unwrap(v.additional_properties).s.properties = Some(StatusProps)
    /\ Unwrap(v.additional_properties).s.required = AllRequired

(* C4 - Map-of-struct: a property whose additionalProperties carries       *)
(* properties {id, message, status} (strings, all required there) gives    *)
(* its owner a member of type Map<String, X> (in Option unless required)   *)
(* and the catalog a struct X with the members id, message, status, all    *)
(* of type String.                                                         *)
C4_MapOfStruct ==
    Succeeded =>
        \A o \in RealizedOwners : \A i \in PropIndex(o) :
            (IsStatusMap(ValueOf(o, i)) /\ ~Ignored(o, i)
             /\ UniqueName(o.name \o to_upper_camel_case(KeyOf(o, i))))
            => LET X == o.name \o to_upper_camel_case(KeyOf(o, i))
               IN /\ MemberOf(o, i).type_ =
                        Wrapped(MapTypeName(cfg.map) \o "<String, " \o X \o ">",
                                KeyOf(o, i), ReqsOf(o.node))
                  /\ InCatalog(X)
                  /\ ~ContainerNamed(X).is_enum
                  /\ Len(ContainerNamed(X).members) = 3
                  /\ \A j \in 1..3 :
                        /\ ContainerNamed(X).members[j].name = StatusProps[j].key
                        /\ ContainerNamed(X).members[j].type_ = "String"

\* an object whose properties are exactly the seven keys of an ObjectReference
IsExactObjectRef(v) ==
    /\ StrOrDefault(v.type_) = "object"
    /\ IsNone(v.additional_properties)
    /\ IsSome(v.properties)
    /\ {PropsOf(v)[j].key : j \in 1..Len(PropsOf(v))} = ObjectRefKeys

(* C5 - Well-known ObjectReference: with detection enabled, an object with *)
(* exactly the seven reference keys makes the member an ObjectReference    *)
(* (Vec<ObjectReference> when it is the element of an array), and no       *)
(* container is generated from that object.                                *)
C5_ObjectReference ==
    (Succeeded /\ ~cfg.no_object_reference) =>
        \A o \in RealizedOwners : \A i \in PropIndex(o) :
            LET v == ValueOf(o, i)
                X == o.name \o to_upper_camel_case(KeyOf(o, i))
            IN  /\ IsExactObjectRef(v) =>
                    /\ IsBareOrOption(MemberOf(o, i).type_, "ObjectReference")
                    /\ ~InCatalog(X)
                /\ (StrOrDefault(v.type_) = "array" /\ IsSchemaItem(v.items)
                    /\ IsExactObjectRef(Unwrap(v.items).s)) =>
                    /\ IsBareOrOption(MemberOf(o, i).type_, "Vec<ObjectReference>")
                    /\ ~InCatalog(X)

----------------------------------------------------------------------------
\* an array property whose element has all the properties of a Condition
IsConditionArray(v) ==
    /\ StrOrDefault(v.type_) = "array"
    /\ IsSchemaItem(v.items)
    /\ \A k \in ConditionKeys : HasKey(PropsOf(Unwrap(v.items).s), k)

\* the member of such a property is Vec<Condition> and, no other node having
\* the name, no container is made for the element
ConditionMember(o, i) ==
    LET X == o.name \o to_upper_camel_case(KeyOf(o, i))
    IN  /\ IsBareOrOption(MemberOf(o, i).type_, "Vec<Condition>")
        /\ UniqueName(X) => ~InCatalog(X)

IsStringLiteralEnum(v) ==
    /\ IsStringEnum(v)
    /\ \A j \in 1..Len(Unwrap(v.enum_)) : Unwrap(v.enum_)[j].t = "String"

\* the enum container made from the literals of v under the name X
IsEnumOf(X, v) ==
    /\ InCatalog(X)
    /\ ContainerNamed(X).is_enum
    /\ Len(ContainerNamed(X).members) = Len(Unwrap(v.enum_))
    /\ \A j \in 1..Len(Unwrap(v.enum_)) :
          /\ ContainerNamed(X).members[j].name = Unwrap(v.enum_)[j].text
          /\ ContainerNamed(X).members[j].type_ = ""

----------------------------------------------------------------------------
\* the number of array levels around the element of an array schema
RECURSIVE ArrayDepth(_)
ArrayDepth(v) ==
    IF StrOrDefault(v.type_) = "array" /\ IsSchemaItem(v.items)
    THEN 1 + ArrayDepth(Unwrap(v.items).s)
    ELSE 0

RECURSIVE ArrayElement(_)
ArrayElement(v) ==
    IF StrOrDefault(v.type_) = "array" /\ IsSchemaItem(v.items)
    THEN ArrayElement(Unwrap(v.items).s)
    ELSE v

IsPlainScalar(e) ==
    StrOrDefault(e.type_) \in {"string", "boolean", "integer", "number"}
    /\ IsNone(e.enum_)

\* the primitive a scalar node resolves to
ScalarType(e) ==
    CASE StrOrDefault(e.type_) = "string" -> "String"
      [] StrOrDefault(e.type_) = "boolean" -> "bool"
      [] StrOrDefault(e.type_) = "integer" -> extract_integer_type(e).val
      [] StrOrDefault(e.type_) = "number" -> extract_number_type(e).val

(* C8 - Array nesting fidelity: a property that nests arrays d >= 1 levels *)
(* deep around a scalar element E gets a member with exactly d Vec         *)
(* wrappers around the type E resolves to, in Option unless required.      *)
C8_ArrayNesting ==
    Succeeded =>
        \A o \in RealizedOwners : \A i \in PropIndex(o) :
            (ArrayDepth(ValueOf(o, i)) >= 1 /\ IsPlainScalar(ArrayElement(ValueOf(o, i))))
            => MemberOf(o, i).type_ =
                  Wrapped(VecOf(ArrayDepth(ValueOf(o, i)),
                                ScalarType(ArrayElement(ValueOf(o, i)))),
                          KeyOf(o, i), ReqsOf(o.node))

----------------------------------------------------------------------------
\* every schema node below the properties of v, with the key of the property
\* it belongs to
RECURSIVE NodesBelow(_, _)
RECURSIVE NodesOfProps(_)
NodesBelow(v, key) ==
    {<<v, key>>}
    \cup NodesOfProps(v)
    \cup (IF IsSchemaItem(v.items) THEN NodesBelow(Unwrap(v.items).s, key) ELSE {})
    \cup (IF IsSchemaItem(v.additional_properties)
          THEN NodesBelow(Unwrap(v.additional_properties).s, key) ELSE {})

NodesOfProps(v) ==
    UNION {NodesBelow(PropsOf(v)[i].value, PropsOf(v)[i].key) : i \in 1..Len(PropsOf(v))}

KnownTypes == {"object", "string", "boolean", "date", "number", "integer", "array"}

\* a node with nothing in it: no type, no properties, no resolving flag
IsEmptyNode(v) ==
    /\ IsNone(v.type_)
    /\ IsNone(v.properties)
    /\ IsNone(v.one_of)
    /\ IsNone(v.x_kubernetes_int_or_string)
    /\ IsNone(v.x_kubernetes_preserve_unknown_fields)

\* the constructs the analyzer has no type for
Unresolvable(v) ==
    \/ StrOrDefault(v.type_) = "array" /\ IsNone(v.items)
    \/ StrOrDefault(v.type_) = "array" /\ Unwrap(v.items).tag = "JSONSchemas"
    \/ IsSome(v.type_) /\ Unwrap(v.type_) \notin KnownTypes
    \/ IsSome(v.enum_) /\ \E j \in 1..Len(Unwrap(v.enum_)) :
          ~(Unwrap(v.enum_)[j].t = "String"
            \/ (Unwrap(v.enum_)[j].t = "Number" /\ Unwrap(v.enum_)[j].repr = "u64"))
    \/ IsEmptyNode(v) /\ ~cfg.relaxed

\* the root is a plain object with the single property (key, value)
SingleProperty(key, value) ==
    /\ StrOrDefault(schema.type_) = "object"
    /\ IsNone(schema.additional_properties)
    /\ PropsOf(schema) = <<[key |-> key, value |-> value]>>

(* C9 - Whole-call failure: when a construct below a property of the root  *)
(* that the analyzer looks into cannot be resolved, analyze returns an     *)
(* error, not a catalog, and the error names the property that holds the   *)
(* construct.                                                              *)
C9_WholeCallFailure ==
    Done =>
        \A k \in RootKeys \ IGNORED_KEYS : \A v \in Values :
            SingleProperty(k, v) =>
                \A n \in NodesBelow(v, k) :
                    Unresolvable(n[1]) => (Failed /\ Contains(ErrorText, n[2]))

OpaqueMap == MapTypeName(cfg.map) \o "<String, serde_json::Value>"

(* C10 - Relaxed fallback: an empty node met as a property, as the value   *)
(* of additionalProperties or as the element of an array makes analyze     *)
(* fail in strict mode; in relaxed mode analyze succeeds and the member's  *)
(* type holds the map from String to the opaque value.                     *)
C10_RelaxedFallback ==
    Done =>
        \A k \in RootKeys : \A v \in {EmptySchema, MapOf(EmptySchema), ArrayOf(EmptySchema)} :
            SingleProperty(k, v) =>
                IF cfg.relaxed
                THEN Succeeded /\ Contains(Catalog[1].members[1].type_, OpaqueMap)
                ELSE Failed

----------------------------------------------------------------------------
\* the literals of an enum list are all strings, or all non-negative integers
IsUniformEnum(lits) ==
    \/ \A j \in 1..Len(lits) : lits[j].t = "String"
    \/ \A j \in 1..Len(lits) : lits[j].t = "Number" /\ lits[j].repr = "u64"

(* C11 - Enum literal validation: when the single property of the root is  *)
(* a scalar with an enum list, analyze succeeds only if the literals are   *)
(* all strings or all non-negative integers; a negative integer, a float,  *)
(* a boolean, a null or a mix of strings and integers makes it fail.       *)
C11_EnumLiterals ==
    Done =>
        \A k \in RootKeys \ IGNORED_KEYS : \A v \in EnumLeaves :
            SingleProperty(k, v) =>
                (Succeeded => IsUniformEnum(Unwrap(v.enum_)))

----------------------------------------------------------------------------
(* Renaming: Container::rename and Output::rename (src/src/output.rs) *)

\* heck's snake case joins the lower-cased words with "_"
SnakeJoin(acc, piece) ==
    (IF acc = "" THEN "" ELSE acc \o "_") \o Lowercase(piece)

\* one alphanumeric word of heck's transform, for snake case
RECURSIVE SnakeScan(_, _, _, _, _)
SnakeScan(w, i, init, mode, acc) ==
    IF i > Len(w) THEN acc
    ELSE IF i = Len(w) THEN SnakeJoin(acc, SubSeq(w, init, Len(w)))
    ELSE LET c == CharAt(w, i)
             next == CharAt(w, i + 1)
             next_mode == IF IsLower(c) THEN "Lowercase"
                          ELSE IF IsUpper(c) THEN "Uppercase" ELSE mode
         IN IF next_mode = "Lowercase" /\ IsUpper(next)
            THEN SnakeScan(w, i + 1, i + 1, "Boundary", SnakeJoin(acc, SubSeq(w, init, i)))
            ELSE IF mode = "Uppercase" /\ IsUpper(c) /\ IsLower(next)
            THEN SnakeScan(w, i + 1, i, "Boundary", SnakeJoin(acc, SubSeq(w, init, i - 1)))
            ELSE SnakeScan(w, i + 1, init, next_mode, acc)

RECURSIVE SnakeFrom(_, _, _, _)
SnakeFrom(s, i, start, acc) ==
    IF i > Len(s) THEN SnakeScan(SubSeq(s, start, Len(s)), 1, 1, "Boundary", acc)
    ELSE IF IsAlphanumeric(CharAt(s, i)) THEN SnakeFrom(s, i + 1, start, acc)
    ELSE SnakeFrom(s, i + 1, i + 1, SnakeScan(SubSeq(s, start, i - 1), 1, 1, "Boundary", acc))

to_snake_case(s) == SnakeFrom(s, 1, 1, "")

\* heck's PascalCase is its UpperCamelCase
to_pascal_case(s) == to_upper_camel_case(s)

\* the words syn refuses as an identifier
Keywords ==
    {"_", "abstract", "as", "async", "await", "become", "box", "break", "const",
     "continue", "crate", "do", "dyn", "else", "enum", "extern", "false", "final",
     "fn", "for", "if", "impl", "in", "let", "loop", "macro", "match", "mod", "move",
     "mut", "override", "priv", "pub", "ref", "return", "Self", "self", "static",
     "struct", "super", "trait", "true", "try", "type", "typeof", "unsafe",
     "unsized", "use", "virtual", "where", "while", "yield"}

\* the words that cannot follow r# in a raw identifier
NotRaw == {"_", "super", "self", "Self", "crate"}

\* a letter or underscore, then letters, digits and underscores
IsIdentShape(s) ==
    /\ Len(s) > 0
    /\ (CharAt(s, 1) = "_" \/ IsUpper(CharAt(s, 1)) \/ IsLower(CharAt(s, 1)))
    /\ \A i \in 1..Len(s) : CharAt(s, i) = "_" \/ IsAlphanumeric(CharAt(s, i))

\* syn::parse_str::<syn::Ident>(name).is_ok()
ParsesAsIdent(name) ==
    IF Len(name) >= 2 /\ SubSeq(name, 1, 2) = "r#"
    THEN /\ IsIdentShape(SubSeq(name, 3, Len(name)))
         /\ SubSeq(name, 3, Len(name)) \notin NotRaw
    ELSE IsIdentShape(name) /\ name \notin Keywords

\* Option<String>
try_escape_name(name) ==
    IF ParsesAsIdent(name) THEN Some(name)
    ELSE IF ParsesAsIdent("r#" \o name) THEN Some("r#" \o name)
    ELSE IF ParsesAsIdent("r#_" \o name) THEN Some("r#_" \o name)
    ELSE None

\* usize::to_string for the positions the model uses
IndexText(i) == IF i < 10 THEN CharAt(DigitChars, i + 1)
                ELSE CharAt(DigitChars, (i \div 10) + 1) \o CharAt(DigitChars, (i % 10) + 1)

\* the name an enum variant starts from
VariantName(raw) ==
    IF raw = "" THEN "KopiumEmpty"
    ELSE IF raw = "-" THEN "KopiumDash"
    ELSE IF raw = "_" THEN "KopiumUnderscore"
    ELSE to_pascal_case(raw)

\* unwrap_or_else(|| format!("KopiumVariant{i}"))
OrVariant(escaped, i) ==
    IF IsSome(escaped) THEN Ok(Unwrap(escaped)) ELSE Ok("KopiumVariant" \o IndexText(i))

\* unwrap_or_else(|| panic!(..))
OrPanic(escaped, raw) ==
    IF IsSome(escaped) THEN Ok(Unwrap(escaped))
    ELSE Err("invalid field name '" \o raw \o "' could not be escaped")

\* the name chosen for member i (counted from 0) before disambiguation:
\* Ok(name), or Err when rename panics
NewName(raw, i, is_enum) ==
    IF is_enum THEN OrVariant(try_escape_name(VariantName(raw)), i)
    ELSE IF raw = "-" THEN Ok("kopium_dash")
    ELSE IF raw = "_" THEN Ok("kopium_underscore")
    ELSE OrPanic(try_escape_name(to_snake_case(raw)), raw)

RECURSIVE Disambiguate(_, _, _)

\* Disambiguate with one suffix at most, in place of the loop
Disambiguate_once(new_name, seen, is_enum) ==
    IF VecContains(seen, new_name)
    THEN new_name \o (IF is_enum THEN "X" ELSE "_x")
    ELSE new_name

\* while seen.contains(&new_name) { new_name = format!("{new_name}{suffix}") }
Disambiguate(new_name, seen, is_enum) ==
    IF VecContains(seen, new_name)
    THEN Disambiguate(new_name \o (IF is_enum THEN "X" ELSE "_x"), seen, is_enum)
    ELSE new_name

\* Renamed with the annotation pushed whether or not the name changes
Renamed_always(m, new_name) ==
    [m EXCEPT !.serde_annot = Append(@, "rename = \"" \o m.name \o "\""),
              !.name = new_name]

\* the member after the last step of a loop turn: renamed and annotated
\* when its name changes
Renamed(m, new_name) ==
    IF new_name # m.name
    THEN [m EXCEPT !.serde_annot = Append(@, "rename = \"" \o m.name \o "\""),
                   !.name = new_name]
    ELSE m

RECURSIVE RenameLoop(_, _, _, _)

\* the end of a loop turn of Container::rename for the disambiguated name
RenameNext(new_name, members, i, seen, is_enum) ==
    RenameLoop([members EXCEPT ![i] = Renamed(members[i], new_name)], i + 1,
               Append(seen, new_name), is_enum)

\* the `panic!` of a loop turn, or its disambiguation
RenameTurn(name, members, i, seen, is_enum) ==
    IF ~name.ok THEN name
    ELSE RenameNext(Disambiguate(name.val, seen, is_enum), members, i, seen, is_enum)

\* the loop of Container::rename over members[i..]: Ok(members) or Err (panic)
RenameLoop(members, i, seen, is_enum) ==
    IF i > Len(members) THEN Ok(members)
    ELSE RenameTurn(NewName(members[i].name, i - 1, is_enum), members, i, seen, is_enum)

\* the container with the renamed members
WithMembers(c, members) ==
    IF ~members.ok THEN members ELSE Ok([c EXCEPT !.members = members.val])

\* Container::rename: Ok(container) or Err (panic)
Container_rename(c) == WithMembers(c, RenameLoop(c.members, 1, <<>>, c.is_enum))

RECURSIVE RenameAll(_, _)

\* the step of Output::rename to the next container
RenameRest(c, out, i) ==
    IF ~c.ok THEN c ELSE RenameAll([out EXCEPT ![i] = c.val], i + 1)

\* the loop of Output::rename over out[i..]
RenameAll(out, i) ==
    IF i > Len(out) THEN Ok(out) ELSE RenameRest(Container_rename(out[i]), out, i)

\* Output::rename: Ok(output) or Err (panic)
Output_rename(out) == RenameAll(out, 1)

----------------------------------------------------------------------------
(* The renaming pass on its own: one call of Output::rename on a catalog *)

\* bound on the number of members drawn freely from RawNames
MaxMembers == 3

\* wire names: casings of one name, a keyword, a number, the degenerate
\* names and one without any letter or digit
RawNames == {"jwks_uri", "jwks-uri", "jwksUri", "JwksUri", "type", "301",
             "", "-", "_", "!="}

JwksNames == <<"jwks_uri", "jwks-uri", "jwksUri", "JwksUri">>

\* the names of output.rs's test rename_avoids_producing_name_clashes
ClashNames == <<"replace", "Replace", "hashmod", "HashMod">> \o JwksNames

\* a member as the analyzer makes it: an enum variant has the empty type,
\* a struct field is optional
RawMember(raw, is_enum) ==
    IF is_enum THEN Member(raw, "", <<>>, None)
    ELSE Member(raw, "Option<u32>",
                <<"default", "skip_serializing_if = \"Option::is_none\"">>, None)

RawContainer(name, raws, is_enum) ==
    Container(name, [i \in 1..Len(raws) |-> RawMember(raws[i], is_enum)], 1, None,
              is_enum)

RawNameLists == UNION {[1..n -> RawNames] : n \in 0..MaxMembers}

RenameInputs ==
    {<<RawContainer("FakeStruct", raws, e)>> : raws \in RawNameLists, e \in BOOLEAN}
    \cup {<<RawContainer("EndpointRelabelingsAction", ClashNames, TRUE),
            RawContainer("FakeStruct", JwksNames, FALSE)>>,
          <<RawContainer("FakeStruct", JwksNames, FALSE),
            RawContainer("FakeEnum", JwksNames, TRUE)>>}

RenameInit ==
    /\ catalog \in RenameInputs
    /\ schema = EmptySchema
    /\ kind = ""
    /\ cfg = [no_condition |-> FALSE, no_object_reference |-> FALSE,
              map |-> "BTreeMap", relaxed |-> FALSE]
    /\ pc = "start"
    /\ result = None
    /\ overrides = NoOverrides

\* catalog.rename(): the renamed catalog, or the panic, is the result
Rename ==
    /\ pc = "start"
    /\ pc' = "renamed"
    /\ result' = Some(Output_rename(catalog))
    /\ UNCHANGED <<schema, kind, cfg, catalog, overrides>>

NextRename == Rename

SpecRename == RenameInit /\ [][NextRename]_vars

\* rename has run to its end / has panicked
Renamed_ok == pc = "renamed" /\ Unwrap(result).ok

Rename_panicked == pc = "renamed" /\ ~Unwrap(result).ok

\* the catalog rename returned
RenamedCatalog == Unwrap(result).val

\* the raw names of container i of the input are the given ones
HasRawNames(i, raws) ==
    /\ i <= Len(catalog)
    /\ Len(catalog[i].members) = Len(raws)
    /\ \A j \in 1..Len(raws) : catalog[i].members[j].name = raws[j]

HasNewNames(i, names) ==
    /\ Len(RenamedCatalog[i].members) = Len(names)
    /\ \A j \in 1..Len(names) : RenamedCatalog[i].members[j].name = names[j]

(* C12 - Rename uniqueness: after Container::rename the member names of a  *)
(* container are pairwise distinct; the raw names jwks_uri, jwks-uri,      *)
(* jwksUri, JwksUri become JwksUri, JwksUriX, JwksUriXX, JwksUriXXX in an  *)
(* enum and jwks_uri, jwks_uri_x, jwks_uri_x_x, jwks_uri_x_x_x in a struct.*)
C12_RenameUnique ==
    Renamed_ok =>
        \A i \in 1..Len(catalog) :
            /\ Len(RenamedCatalog[i].members) = Len(catalog[i].members)
            /\ \A j, k \in 1..Len(RenamedCatalog[i].members) :
                  j # k => RenamedCatalog[i].members[j].name
                           # RenamedCatalog[i].members[k].name
            /\ HasRawNames(i, JwksNames) =>
                  IF catalog[i].is_enum
                  THEN HasNewNames(i, <<"JwksUri", "JwksUriX", "JwksUriXX", "JwksUriXXX">>)
                  ELSE HasNewNames(i, <<"jwks_uri", "jwks_uri_x", "jwks_uri_x_x",
                                        "jwks_uri_x_x_x">>)

C12_Witness ==
    /\ Renamed_ok
    /\ Len(catalog) = 2
    /\ HasRawNames(1, JwksNames) /\ ~catalog[1].is_enum
    /\ HasRawNames(2, JwksNames) /\ catalog[2].is_enum
    /\ RenamedCatalog[1].members[4].name = "jwks_uri_x_x_x"
    /\ RenamedCatalog[2].members[4].name = "JwksUriXXX"

----------------------------------------------------------------------------
\* format!("rename = \"{}\"", raw)
RenameAnnot(raw) == "rename = \"" \o raw \o "\""

\* member j of container i before and after the pass
RawOf(i, j) == catalog[i].members[j]

NewOf(i, j) == RenamedCatalog[i].members[j]

MemberIndex == {<<i, j>> \in (1..Len(catalog)) \X (1..8) : j <= Len(catalog[i].members)}

(* C13 - Rename annotation: after the pass a member carries                *)
(* rename = "<raw>" exactly when its final name differs from its raw name; *)
(* its other annotations, its type and its docs are as before, and so are  *)
(* the name, level and kind of its container.                              *)
C13_RenameAnnotation ==
    Renamed_ok =>
        /\ Len(RenamedCatalog) = Len(catalog)
        /\ \A i \in 1..Len(catalog) :
              /\ RenamedCatalog[i].name = catalog[i].name
              /\ RenamedCatalog[i].level = catalog[i].level
              /\ RenamedCatalog[i].is_enum = catalog[i].is_enum
              /\ Len(RenamedCatalog[i].members) = Len(catalog[i].members)
        /\ \A p \in MemberIndex :
              LET m == RawOf(p[1], p[2])
                  n == NewOf(p[1], p[2])
              IN /\ n.type_ = m.type_
                 /\ n.docs = m.docs
                 /\ n.extra_annot = m.extra_annot
                 /\ IF n.name # m.name
                    THEN n.serde_annot = Append(m.serde_annot, RenameAnnot(m.name))
                    ELSE n.serde_annot = m.serde_annot

C13_Witness ==
    /\ Renamed_ok
    /\ \E p \in MemberIndex :
          /\ NewOf(p[1], p[2]).name = RawOf(p[1], p[2]).name
          /\ Len(NewOf(p[1], p[2]).serde_annot) = 2
    /\ \E p \in MemberIndex :
          /\ NewOf(p[1], p[2]).name = "r#type"
          /\ NewOf(p[1], p[2]).serde_annot[3] = RenameAnnot("type")

\* the names put in place of the degenerate raw names
Sentinels == [is_enum \in BOOLEAN |->
                 IF is_enum
                 THEN [raw \in {"", "-", "_"} |->
                          CASE raw = "" -> "KopiumEmpty"
                            [] raw = "-" -> "KopiumDash"
                            [] raw = "_" -> "KopiumUnderscore"]
                 ELSE [raw \in {"", "-", "_"} |->
                          CASE raw = "" -> "kopium_empty"
                            [] raw = "-" -> "kopium_dash"
                            [] raw = "_" -> "kopium_underscore"]]

(* C14 - Rename of degenerate names: the pass runs to its end for every    *)
(* raw name, in structs and in enums; the raw names "", "-" and "_" get a  *)
(* sentinel name and every final name is a legal identifier.               *)
C14_RenameCompletes ==
    pc = "renamed" =>
        /\ Renamed_ok
        /\ \A p \in MemberIndex :
              /\ ParsesAsIdent(NewOf(p[1], p[2]).name)
              /\ RawOf(p[1], p[2]).name \in {"", "-", "_"} =>
                    StartsWith(NewOf(p[1], p[2]).name,
                               Sentinels[catalog[p[1]].is_enum][RawOf(p[1], p[2]).name])

-----------------------------------------------------------------------------
(* Container::can_derive_default, the check behind --smart-derive-elision *)

\* containers.iter().find(|c| c.name == m.type_): the first index, 0 for None
FindNamed(containers, name, i) ==
    IF \E j \in i..Len(containers) : containers[j].name = name
    THEN CHOOSE j \in i..Len(containers) :
             /\ containers[j].name = name
             /\ \A k \in i..(j - 1) : containers[k].name # name
    ELSE 0

\* the conditions on the member's type that come before the lookup
NamesStruct(type_) ==
    /\ ~Contains(type_, "<")
    /\ type_ # "String"
    /\ type_ # "IntOrString"
    /\ type_ # "NaiveDate"
    /\ type_ # "DateTime"
    /\ Len(type_) > 0
    /\ IsUpper(CharAt(type_, 1))

\* a call that came back with val, leaving the cells as in containers
Returned(val, containers) == [status |-> "returned", val |-> val, containers |-> containers]

\* a call that never comes back: the recursion re-enters a container whose
\* cell is still empty and repeats itself until the stack is exhausted
Overflow(containers) == [status |-> "overflow", val |-> FALSE, containers |-> containers]

\* self.supports_derive_default.set(val).unwrap()
SetCell(containers, i, val) ==
    IF IsSome(containers[i].supports_derive_default)
    THEN [status |-> "panic", val |-> FALSE, containers |-> containers]
    ELSE Returned(val, [containers EXCEPT ![i].supports_derive_default = Some(val)])

RECURSIVE can_derive_default(_, _, _)

RECURSIVE DeriveLoop(_, _, _, _)

\* after the call on the member's container: is_some_and(|c| !c.can_derive_default(..))
AfterMember(r, i, k, calls) ==
    IF r.status # "returned" THEN r
    ELSE IF ~r.val THEN SetCell(r.containers, i, FALSE)
    ELSE DeriveLoop(r.containers, i, k + 1, calls)

\* the member's type names a struct and a container of that name is found
MemberTurn(containers, i, k, j, calls) ==
    IF NamesStruct(containers[i].members[k].type_) /\ j > 0
    THEN AfterMember(can_derive_default(containers, j, calls), i, k, calls)
    ELSE DeriveLoop(containers, i, k + 1, calls)

\* for m in &self.members, from member k on; calls: the containers whose
\* call is in progress
DeriveLoop(containers, i, k, calls) ==
    IF k > Len(containers[i].members) THEN SetCell(containers, i, TRUE)
    ELSE MemberTurn(containers, i, k,
                    FindNamed(containers, containers[i].members[k].type_, 1), calls)

\* containers[i].can_derive_default(&containers)
can_derive_default(containers, i, calls) ==
    IF containers[i].is_enum THEN Returned(FALSE, containers)
    ELSE IF IsSome(containers[i].supports_derive_default)
    THEN Returned(Unwrap(containers[i].supports_derive_default), containers)
    ELSE IF i \in calls THEN Overflow(containers)
    ELSE DeriveLoop(containers, i, 1, calls \cup {i})

-----------------------------------------------------------------------------
(* The derivability check on hand-built catalogs *)

MaxContainers == 2

MaxRefs == 2

\* the names of the containers of a drawn catalog
DeriveNames == {"Date", "DateTime", "DateSpec"}

DeriveTypes == {"String", "Date", "DateTime", "DateSpec", "Option<DateSpec>"}

TypedMember(type_) == Member("f", type_, <<>>, None)

TypeLists == UNION {[1..n -> DeriveTypes] : n \in 0..MaxRefs}

DeriveShapes ==
    {[name |-> n, is_enum |-> TRUE, types |-> <<>>] : n \in DeriveNames}
    \cup {[name |-> n, is_enum |-> FALSE, types |-> ts] :
              n \in DeriveNames, ts \in TypeLists}

DrawnContainer(shape) ==
    Container(shape.name,
              [k \in 1..Len(shape.types) |-> TypedMember(shape.types[k])],
              1, None, shape.is_enum)

\* the catalog of the unit test
TestContainers ==
    << Container("Simple", <<>>, 1, None, FALSE),
       Container("Enum", <<>>, 1, None, TRUE),
       Container("Nested", <<TypedMember("Simple")>>, 1, None, FALSE),
       Container("ReferencesEnum", <<TypedMember("Enum")>>, 1, None, FALSE),
       Container("ReferencesEnumNested", <<TypedMember("ReferencesEnum")>>, 1, None, FALSE),
       Container("ReferencesEnumOption", <<TypedMember("Option<Enum>")>>, 1, None, FALSE),
       Container("ReferencesEnumVec", <<TypedMember("Vec<Enum>")>>, 1, None, FALSE),
       Container("ReferencesEnumNestedOption",
                 <<TypedMember("Option<ReferencesEnum>")>>, 1, None, FALSE) >>

DeriveInputs ==
    {[i \in 1..Len(f) |-> DrawnContainer(f[i])] :
         f \in {g \in UNION {[1..n -> DeriveShapes] : n \in 1..MaxContainers} :
                   \A i, j \in 1..Len(g) : g[i].name = g[j].name => i = j}}
    \cup {TestContainers}

DeriveInit ==
    /\ catalog \in DeriveInputs
    /\ schema = EmptySchema
    /\ kind = ""
    /\ cfg = CHOOSE c \in Configs : TRUE
    /\ pc = "start"
    /\ result = None
    /\ overrides = NoOverrides

\* the cells after the call, and what the call gave
Called(r, i) ==
    /\ catalog' = r.containers
    /\ result' = Some([index |-> i, status |-> r.status, val |-> r.val])
    /\ pc' = IF r.status = "returned" THEN "called" ELSE "aborted"

\* one call of can_derive_default on a container of the catalog; calls repeat
CanDeriveDefault ==
    /\ pc \in {"start", "called"}
    /\ \E i \in 1..Len(catalog) : Called(can_derive_default(catalog, i, {}), i)
    /\ UNCHANGED <<schema, kind, cfg, overrides>>

NextDerive == CanDeriveDefault

SpecDerive == DeriveInit /\ [][NextDerive]_vars

\* the container the last call was made on
CalledOn == catalog[Unwrap(result).index]

RECURSIVE RefersBack(_, _, _)

\* container i reaches container t through at most n bare-name member types
RefersBack(i, t, n) ==
    /\ n > 0
    /\ \E k \in 1..Len(catalog[i].members) :
           /\ FindNamed(catalog, catalog[i].members[k].type_, 1) > 0
           /\ \/ FindNamed(catalog, catalog[i].members[k].type_, 1) = t
              \/ RefersBack(FindNamed(catalog, catalog[i].members[k].type_, 1), t, n - 1)

\* no container refers back to itself
Acyclic == \A i \in 1..Len(catalog) : ~RefersBack(i, i, Len(catalog))

RECURSIVE Derivable(_, _)

\* derivability as stated: never for an enum; for a struct, every member whose
\* type is the bare name of a catalog container refers to a derivable one
Derivable(i, n) ==
    /\ ~catalog[i].is_enum
    /\ \A k \in 1..Len(catalog[i].members) :
           FindNamed(catalog, catalog[i].members[k].type_, 1) > 0
               => /\ n > 0
                  /\ Derivable(FindNamed(catalog, catalog[i].members[k].type_, 1), n - 1)

\* C15: on a catalog without reference cycles, a call of can_derive_default
\* returns, and its answer is false for an enum and, for a struct, true
\* exactly when every member whose type is the bare name of a catalog
\* container refers to a derivable container
C15_DefaultDerivable ==
    (pc # "start" /\ Acyclic) =>
        /\ Unwrap(result).status = "returned"
        /\ Unwrap(result).val = Derivable(Unwrap(result).index, Len(catalog))

-----------------------------------------------------------------------------
(* SchemaEq: the comparison of a rule's schema with a property's schema    *)

\* the compared fields with `description` among them
ComparedFields_described ==
    [type_ |-> "String",
     enum_ |-> "Vec<JSON>",
     items |-> "JSONSchemaPropsOrArray",
     additional_items |-> "JSONSchemaPropsOrBool",
     properties |-> "BTreeMap",
     additional_properties |-> "JSONSchemaPropsOrBool",
     required |-> "Vec<String>",
     one_of |-> "Vec<JSONSchemaProps>",
     all_of |-> "Vec<JSONSchemaProps>",
     any_of |-> "Vec<JSONSchemaProps>",
     not |-> "JSONSchemaProps",
     x_kubernetes_int_or_string |-> "bool",
     x_kubernetes_preserve_unknown_fields |-> "bool",
     x_kubernetes_list_type |-> "String",
     x_kubernetes_map_type |-> "String",
     description |-> "String"]

\* the fields is_exhaustive and is_subset compare, with the type of each
ComparedFields ==
    [type_ |-> "String",
     enum_ |-> "Vec<JSON>",
     items |-> "JSONSchemaPropsOrArray",
     additional_items |-> "JSONSchemaPropsOrBool",
     properties |-> "BTreeMap",
     additional_properties |-> "JSONSchemaPropsOrBool",
     required |-> "Vec<String>",
     one_of |-> "Vec<JSONSchemaProps>",
     all_of |-> "Vec<JSONSchemaProps>",
     any_of |-> "Vec<JSONSchemaProps>",
     not |-> "JSONSchemaProps",
     x_kubernetes_int_or_string |-> "bool",
     x_kubernetes_preserve_unknown_fields |-> "bool",
     x_kubernetes_list_type |-> "String",
     x_kubernetes_map_type |-> "String"]

\* the element type of a Vec
ElementType(ty) ==
    CASE ty = "Vec<JSON>" -> "JSON"
      [] ty = "Vec<String>" -> "String"
      [] ty = "Vec<JSONSchemaProps>" -> "JSONSchemaProps"

IsVec(ty) == ty \in {"Vec<JSON>", "Vec<String>", "Vec<JSONSchemaProps>"}

RECURSIVE is_exhaustive(_, _, _)

\* impl SchemaEq for Option<T>
Option_is_exhaustive(ty, x, y) ==
    IF IsSome(x) /\ IsSome(y) THEN is_exhaustive(ty, Unwrap(x), Unwrap(y))
    ELSE IsNone(x) /\ IsNone(y)

\* impl SchemaEq for JSONSchemaPropsOrArray
PropsOrArray_is_exhaustive(x, y) ==
    IF x.tag = "JSONSchemas" /\ y.tag = "JSONSchemas"
    THEN is_exhaustive("Vec<JSONSchemaProps>", x.ss, y.ss)
    ELSE IF x.tag = "Schema" /\ y.tag = "Schema"
    THEN is_exhaustive("JSONSchemaProps", x.s, y.s)
    ELSE FALSE

\* impl SchemaEq for JSONSchemaPropsOrBool
PropsOrBool_is_exhaustive(x, y) ==
    IF x.tag = "Schema" /\ y.tag = "Schema"
    THEN is_exhaustive("JSONSchemaProps", x.s, y.s)
    ELSE IF x.tag = "Bool" /\ y.tag = "Bool" THEN x.b = y.b
    ELSE FALSE

\* the elements of the two lists compared without regard to their position
Vec_is_exhaustive_unordered(ty, x, y) ==
    /\ Len(x) = Len(y)
    /\ \A i \in 1..Len(x) : \E j \in 1..Len(y) : is_exhaustive(ElementType(ty), x[i], y[j])

\* impl SchemaEq for Vec<T>
Vec_is_exhaustive(ty, x, y) ==
    /\ Len(x) = Len(y)
    /\ \A i \in 1..Len(x) : is_exhaustive(ElementType(ty), x[i], y[i])

\* impl SchemaEq for BTreeMap<String, V>
BTreeMap_is_exhaustive(x, y) ==
    /\ Len(x) = Len(y)
    /\ \A i \in 1..Len(x) :
           /\ x[i].key = y[i].key
           /\ is_exhaustive("JSONSchemaProps", x[i].value, y[i].value)

\* x.is_exhaustive(&y) for two values of type ty
is_exhaustive(ty, x, y) ==
    IF ty = "JSONSchemaProps"
    THEN \A f \in DOMAIN ComparedFields : Option_is_exhaustive(ComparedFields[f], x[f], y[f])
    ELSE IF ty = "JSONSchemaPropsOrArray" THEN PropsOrArray_is_exhaustive(x, y)
    ELSE IF ty = "JSONSchemaPropsOrBool" THEN PropsOrBool_is_exhaustive(x, y)
    ELSE IF ty = "BTreeMap" THEN BTreeMap_is_exhaustive(x, y)
    ELSE IF IsVec(ty) THEN Vec_is_exhaustive(ty, x, y)
    ELSE x = y

RECURSIVE is_subset(_, _, _)

\* impl SchemaEq for Option<T>
Option_is_subset(ty, x, y) ==
    IF IsSome(x) /\ IsSome(y) THEN is_subset(ty, Unwrap(x), Unwrap(y))
    ELSE IsNone(x)

\* impl SchemaEq for JSONSchemaPropsOrArray
PropsOrArray_is_subset(x, y) ==
    IF x.tag = "JSONSchemas" /\ y.tag = "JSONSchemas"
    THEN is_subset("Vec<JSONSchemaProps>", x.ss, y.ss)
    ELSE IF x.tag = "JSONSchemas"
    THEN \A i \in 1..Len(x.ss) : is_subset("JSONSchemaProps", x.ss[i], y.s)
    ELSE IF y.tag = "JSONSchemas"
    THEN \E j \in 1..Len(y.ss) : is_subset("JSONSchemaProps", x.s, y.ss[j])
    ELSE is_subset("JSONSchemaProps", x.s, y.s)

\* impl SchemaEq for JSONSchemaPropsOrBool
PropsOrBool_is_subset(x, y) ==
    IF x.tag = "Schema" /\ y.tag = "Schema"
    THEN is_subset("JSONSchemaProps", x.s, y.s)
    ELSE IF x.tag = "Bool" /\ y.tag = "Bool" THEN x.b = y.b
    ELSE FALSE

\* impl SchemaEq for serde_json::Value, on the scalar values
Value_is_subset(x, y) ==
    IF x.t = "Null" THEN TRUE
    ELSE IF x.t = y.t THEN x = y
    ELSE FALSE

\* impl SchemaEq for Vec<T>
Vec_is_subset(ty, x, y) ==
    /\ Len(x) <= Len(y)
    /\ \A i \in 1..Len(x) : \E j \in 1..Len(y) : is_subset(ElementType(ty), x[i], y[j])

\* impl SchemaEq for BTreeMap<String, V>
BTreeMap_is_subset(x, y) ==
    /\ Len(x) <= Len(y)
    /\ \A i \in 1..Len(x) : \E j \in 1..Len(y) :
           /\ y[j].key = x[i].key
           /\ is_subset("JSONSchemaProps", x[i].value, y[j].value)

\* x.is_subset(&y) for two values of type ty
is_subset(ty, x, y) ==
    IF ty = "JSONSchemaProps"
    THEN \A f \in DOMAIN ComparedFields : Option_is_subset(ComparedFields[f], x[f], y[f])
    ELSE IF ty = "JSONSchemaPropsOrArray" THEN PropsOrArray_is_subset(x, y)
    ELSE IF ty = "JSONSchemaPropsOrBool" THEN PropsOrBool_is_subset(x, y)
    ELSE IF ty = "BTreeMap" THEN BTreeMap_is_subset(x, y)
    ELSE IF ty = "JSON" THEN Value_is_subset(x, y)
    ELSE IF IsVec(ty) THEN Vec_is_subset(ty, x, y)
    ELSE x = y

\* PropertySchema
Exhaustive(s) == [tag |-> "Exhaustive", s |-> s]

Subset(s) == [tag |-> "Subset", s |-> s]

\* impl PartialEq<JSONSchemaProps> for PropertySchema
PropertySchema_eq(match_schema, other) ==
    IF match_schema.tag = "Exhaustive"
    THEN is_exhaustive("JSONSchemaProps", match_schema.s, other)
    ELSE is_subset("JSONSchemaProps", match_schema.s, other)

-----------------------------------------------------------------------------
(* Regular expressions of the name rules: literals, `.`, a postfix `*` or  *)
(* `+` on one character, `^` in front and `$` at the end. The patterns of  *)
(* the model have no group and no class, so a bracket in one is unclosed.  *)

Rest(s, i) == SubSeq(s, i, Len(s))

\* regex::Regex::new succeeds on the pattern
Compiles(pattern) ==
    /\ ~Contains(pattern, "(")
    /\ ~Contains(pattern, "[")
    /\ ~(Len(pattern) > 0 /\ CharAt(pattern, 1) \in {"*", "+"})

\* the pattern character c accepts the text character t
CharMatch(c, t) == c = "." \/ c = t

RECURSIVE MatchHere(_, _)

\* c repeated at least least times in front of text, then re
MatchRepeat(c, re, text, least) ==
    \E k \in least..Len(text) :
        /\ \A i \in 1..k : CharMatch(c, CharAt(text, i))
        /\ MatchHere(re, Rest(text, k + 1))

\* re matches a prefix of text
MatchHere(re, text) ==
    IF Len(re) = 0 THEN TRUE
    ELSE IF Len(re) > 1 /\ CharAt(re, 2) = "*"
    THEN MatchRepeat(CharAt(re, 1), Rest(re, 3), text, 0)
    ELSE IF Len(re) > 1 /\ CharAt(re, 2) = "+"
    THEN MatchRepeat(CharAt(re, 1), Rest(re, 3), text, 1)
    ELSE IF re = "$" THEN Len(text) = 0
    ELSE /\ Len(text) > 0
         /\ CharMatch(CharAt(re, 1), CharAt(text, 1))
         /\ MatchHere(Rest(re, 2), Rest(text, 2))

\* Regex::is_match: the pattern matches somewhere in text
Regex_is_match(pattern, text) ==
    IF Len(pattern) > 0 /\ CharAt(pattern, 1) = "^"
    THEN MatchHere(Rest(pattern, 2), text)
    ELSE \E i \in 1..(Len(text) + 1) : MatchHere(pattern, Rest(text, i))

\* RegexSet::is_match: one of the patterns matches
RegexSet_is_match(patterns, text) ==
    \E i \in 1..Len(patterns) : Regex_is_match(patterns[i], text)

\* RegexSet::new: the set, or the error of the first pattern that does not compile
PropertyRegexSet_new(patterns) ==
    IF \A i \in 1..Len(patterns) : Compiles(patterns[i]) THEN Ok(patterns)
    ELSE Err(patterns[CHOOSE i \in 1..Len(patterns) :
                          /\ ~Compiles(patterns[i])
                          /\ \A j \in 1..(i - 1) : Compiles(patterns[j])])

-----------------------------------------------------------------------------
(* PropertyRule, Overrides *)

\* PropertyName
Exact(name) == [tag |-> "Exact", text |-> name]

Regex(pattern) == [tag |-> "Regex", text |-> pattern]

\* PropertyAction
Replace(type_) == [tag |-> "Replace", type_ |-> type_]

Omit == [tag |-> "Omit"]

\* match_name: the expressions of the set in the order the set yields them
PropertyRule(match_name, match_schema, match_success) ==
    [match_name |-> match_name, match_schema |-> match_schema,
     match_success |-> match_success]

IsExactName(name) == name.tag = "Exact"

IsRegexName(name) == name.tag = "Regex"

Texts(names) == [i \in 1..Len(names) |-> names[i].text]

\* the Exact names of a rule
ExactMatches(rule) ==
    {rule.match_name[i].text : i \in {j \in 1..Len(rule.match_name) :
                                          IsExactName(rule.match_name[j])}}

\* the compiled rule keeps the regular expressions as its match_name
Compiled(regex_set, rule) ==
    IF ~regex_set.ok THEN regex_set
    ELSE Ok([rule |-> PropertyRule(regex_set.val, rule.match_schema, rule.match_success),
             exact_matches |-> ExactMatches(rule)])

\* PropertyRule::compile
compile(rule) ==
    Compiled(PropertyRegexSet_new(Texts(SelectSeq(rule.match_name, IsRegexName))), rule)

\* CompiledPropertyRule::is_match
is_match(rule, name, sch) ==
    /\ ~(rule.match_name # <<>> /\ ~RegexSet_is_match(rule.match_name, name))
    /\ IsSome(rule.match_schema) => PropertySchema_eq(Unwrap(rule.match_schema), sch)

\* a clone of the rule is pushed to the bucket of each of its exact names
IndexPush(property_index, names, rule) ==
    [n \in (DOMAIN property_index) \cup names |->
        IF n \notin names THEN property_index[n]
        ELSE IF n \in DOMAIN property_index THEN Append(property_index[n], rule)
        ELSE <<rule>>]

\* the rule is yielded to the linear scan unless it has exact names only
ScanPush(property_rules, names, rule) ==
    IF names # {} /\ rule.match_name = <<>> THEN property_rules
    ELSE Append(property_rules, rule)

RECURSIVE NewLoop(_, _, _, _, _)

\* the filter_map closure of Overrides::new on one rule
NewStep(c, rules, i, errors, property_index, property_rules) ==
    IF ~c.ok THEN NewLoop(rules, i + 1, Append(errors, c.err), property_index,
                          property_rules)
    ELSE NewLoop(rules, i + 1, errors,
                 IndexPush(property_index, c.val.exact_matches, c.val.rule),
                 ScanPush(property_rules, c.val.exact_matches, c.val.rule))

\* the pass of Overrides::new over rules[i..]
NewLoop(rules, i, errors, property_index, property_rules) ==
    IF i > Len(rules)
    THEN IF errors = <<>>
         THEN Ok([property_index |-> property_index, property_rules |-> property_rules])
         ELSE Err(errors)
    ELSE NewStep(compile(rules[i]), rules, i, errors, property_index, property_rules)

\* Overrides::new
Overrides_new(rules) ==
    NewLoop(rules, 1, <<>>, NoOverrides.property_index, NoOverrides.property_rules)

\* the first rule of the list that matches, as an Option
FirstMatch(rules, name, sch) ==
    IF \E i \in 1..Len(rules) : is_match(rules[i], name, sch)
    THEN Some(rules[CHOOSE i \in 1..Len(rules) :
                        /\ is_match(rules[i], name, sch)
                        /\ \A j \in 1..(i - 1) : ~is_match(rules[j], name, sch)])
    ELSE None

\* self.property_index.get(name), an empty list for None
Bucket(o, name) ==
    IF name \in DOMAIN o.property_index THEN o.property_index[name] ELSE <<>>

\* the bucket's match when there is one, else the scan's
BucketFirst(in_bucket, o, name, sch) ==
    IF IsSome(in_bucket) THEN in_bucket ELSE FirstMatch(o.property_rules, name, sch)

\* Overrides::get_property_rule
get_property_rule(o, name, sch) ==
    BucketFirst(FirstMatch(Bucket(o, name), name, sch), o, name, sch)

\* .map(|rule| &rule.match_success)
ActionOf(rule) == IF IsSome(rule) THEN Some(Unwrap(rule).match_success) ELSE None

\* Overrides::get_property_action
get_property_action(o, name, sch) == ActionOf(get_property_rule(o, name, sch))

-----------------------------------------------------------------------------
(* The rule engine asked about the properties of a root schema *)

MaxRules == 2

ObjNode == Object(BTreeOfKeys(<<"name">>, Str), None)

\* rules that differ in their name expressions
NameRules ==
    {PropertyRule(<<Exact("foo")>>, None, Replace("Foo")),
     PropertyRule(<<Regex("^fo")>>, None, Omit),
     PropertyRule(<<Exact("foo"), Regex("^bar$")>>, None, Replace("FooBar")),
     PropertyRule(<<>>, Some(Subset(Str)), Replace("Text")),
     PropertyRule(<<Exact("foo")>>, Some(Exhaustive(Typed("object"))), Omit),
     PropertyRule(<<Regex("ba+r"), Regex("o.*b$")>>, None, Replace("Bar")),
     PropertyRule(<<Regex("("), Exact("bar")>>, None, Omit)}

RuleLists == UNION {[1..n -> NameRules] : n \in 0..MaxRules}

NamedRoots ==
    {Object(BTreeOfKeys(<<"bar", "fob", "foo">>, Str), None),
     Object(BTreeOfKeys(<<"bar", "foo">>, ObjNode), Some(<<"foo">>)),
     Object(BTreeOfKeys(<<"foo">>, Typed("object")), None)}

\* schemas a rule carries and a property has
SchemaForms ==
    {EmptySchema, Str, Typed("object"), ObjNode,
     Object(BTreeOfKeys(<<"name", "port">>, Str), None),
     Object(BTreeOfKeys(<<"name">>, [Str EXCEPT !.description = Some("Name")]), None),
     [Str EXCEPT !.description = Some("Name")],
     [Str EXCEPT !.required = Some(<<"a">>)],
     [Str EXCEPT !.required = Some(<<"a", "a">>)],
     [Str EXCEPT !.required = Some(<<"a", "b">>)],
     [Str EXCEPT !.required = Some(<<"b", "a">>)],
     WithEnum(Str, <<JsonString("In")>>),
     WithEnum(Str, <<JsonNull>>),
     ArrayOf(Str),
     [Typed("array") EXCEPT !.items = Some(PropsOrArray_JSONSchemas(<<Str, EmptySchema>>))],
     MapOf(Str),
     [Typed("object") EXCEPT !.additional_properties = Some(PropsOrBool_Bool(TRUE))],
     [EmptySchema EXCEPT !.one_of = Some(<<Str>>)],
     [EmptySchema EXCEPT !.one_of = Some(<<Str, EmptySchema>>)],
     [Str EXCEPT !.x_kubernetes_list_type = Some("set")]}

\* one rule without name expressions: the schema test decides alone
SchemaRule(match_schema) == PropertyRule(<<>>, Some(match_schema), Omit)

\* the Overrides a rule list gives, when all of its patterns compile
Built(new) == IF new.ok THEN {new.val} ELSE {}

OverrideInputs ==
    {<<root, o>> : root \in NamedRoots,
                   o \in UNION {Built(Overrides_new(rules)) : rules \in RuleLists}}
    \cup {<<Object(BTreeOfKeys(<<"foo">>, c), None), o>> :
              c \in SchemaForms,
              o \in UNION {Built(Overrides_new(<<SchemaRule(m)>>)) :
                               m \in {Subset(t) : t \in SchemaForms}
                                     \cup {Exhaustive(t) : t \in SchemaForms}}}

OverridesInit ==
    /\ \E input \in OverrideInputs : schema = input[1] /\ overrides = input[2]
    /\ kind = "Agent"
    /\ cfg = [no_condition |-> FALSE, no_object_reference |-> FALSE,
              map |-> "BTreeMap", relaxed |-> FALSE]
    /\ pc = "start"
    /\ result = None
    /\ catalog = <<>>

\* the answer of the engine for one property
Asked(key, value) ==
    /\ result' = Some([name |-> key, value |-> value,
                       action |-> get_property_action(overrides, key, value)])
    /\ pc' = "asked"

\* overrides.get_property_action(key, value) for a property of the root
GetPropertyAction ==
    /\ pc = "start"
    /\ \E i \in 1..Len(PropsOf(schema)) :
           Asked(PropsOf(schema)[i].key, PropsOf(schema)[i].value)
    /\ UNCHANGED <<schema, kind, cfg, catalog, overrides>>

NextOverrides == GetPropertyAction \/ Analyze

SpecOverrides == OverridesInit /\ [][NextOverrides]_vars

\* what was asked, and the answer
WasAsked == pc = "asked"

AskedName == Unwrap(result).name

AskedValue == Unwrap(result).value

Answer == Unwrap(result).action

-----------------------------------------------------------------------------
(* C16, C17 - precedence and name matching of the rules                    *)

\* the rules the engine tests for the name: its bucket, then the scan list
TestedRules(name) ==
    {Bucket(overrides, name)[i] : i \in 1..Len(Bucket(overrides, name))}
    \cup {overrides.property_rules[i] : i \in 1..Len(overrides.property_rules)}

\* the Exact entries of a rule the Overrides holds: the buckets it is in
ExactsOf(rule) ==
    {n \in DOMAIN overrides.property_index :
        \E i \in 1..Len(overrides.property_index[n]) : overrides.property_index[n][i] = rule}

\* the name test as stated: no expression at all, or an Exact entry equal to
\* the name, or a Regex entry matching it
NameTest(rule, name) ==
    \/ ExactsOf(rule) = {} /\ rule.match_name = <<>>
    \/ name \in ExactsOf(rule)
    \/ RegexSet_is_match(rule.match_name, name)

SchemaTest(rule, value) ==
    IsSome(rule.match_schema) => PropertySchema_eq(Unwrap(rule.match_schema), value)

\* the rule matches the property: name test and schema test
Matches(rule, name, value) == NameTest(rule, name) /\ SchemaTest(rule, value)

\* the first rule of the list that matches in that sense
FirstMatching(rules, name, value) ==
    IF \E i \in 1..Len(rules) : Matches(rules[i], name, value)
    THEN Some(rules[CHOOSE i \in 1..Len(rules) :
                        /\ Matches(rules[i], name, value)
                        /\ \A j \in 1..(i - 1) : ~Matches(rules[j], name, value)])
    ELSE None

\* the bucket's first matching rule, else the scan list's, else None
Expected(in_bucket, name, value) ==
    IF IsSome(in_bucket) THEN in_bucket
    ELSE FirstMatching(overrides.property_rules, name, value)

\* C16: the answer of get_property_action is the action of the first matching
\* rule of the bucket of the name when the bucket has one (also when a regex
\* rule declared earlier matches too), else that of the first matching rule
\* of the scan list, and None only when no rule matches
C16_Precedence ==
    WasAsked =>
        Answer = ActionOf(Expected(FirstMatching(Bucket(overrides, AskedName), AskedName,
                                                 AskedValue),
                                   AskedName, AskedValue))

\* C17: a rule tested for a property matches it exactly when its schema test
\* passes and its match_name is empty, or holds an Exact entry equal to the
\* name, or holds a Regex entry matching the name
C17_NameMatching ==
    WasAsked =>
        \A rule \in TestedRules(AskedName) :
            is_match(rule, AskedName, AskedValue) = Matches(rule, AskedName, AskedValue)

-----------------------------------------------------------------------------
(* C18 - the actions of the rules in the analysis                          *)

\* the root container has a member for the key
HasMemberFor(key) ==
    \E j \in 1..Len(Catalog[1].members) : Catalog[1].members[j].name = key

\* the root container has a member for the key with one of the types
HasMemberTyped(key, types) ==
    \E j \in 1..Len(Catalog[1].members) :
        /\ Catalog[1].members[j].name = key
        /\ Catalog[1].members[j].type_ \in types

\* a container was generated from the schema of the root's property
GeneratedFor(key) == InCatalog(to_upper_camel_case(kind) \o to_upper_camel_case(key))

\* what the action the engine gives for a property asks of the catalog
Honoured(action, key) ==
    /\ action = Some(Omit) => ~HasMemberFor(key) /\ ~GeneratedFor(key)
    /\ (IsSome(action) /\ action # Some(Omit)) =>
           /\ HasMemberTyped(key, {Unwrap(action).type_,
                                   "Option<" \o Unwrap(action).type_ \o ">"})
           /\ ~GeneratedFor(key)

\* C18: in a catalog analyze returns, a property for which the engine answers
\* Omit has no member and no container of its own, and a property for which it
\* answers Replace(T) has a member of type T (Option<T> when not required) and
\* no container of its own
C18_OverrideActions ==
    Succeeded =>
        \A i \in 1..Len(PropsOf(schema)) :
            Honoured(get_property_action(overrides, PropsOf(schema)[i].key,
                                         PropsOf(schema)[i].value),
                     PropsOf(schema)[i].key)

-----------------------------------------------------------------------------
(* C19, C20 - subset and exhaustive matching of a rule's schema            *)

\* the Overrides holds one rule, which has no name expression and carries a
\* schema of the given kind
SoleRule(tag) ==
    /\ DOMAIN overrides.property_index = {}
    /\ Len(overrides.property_rules) = 1
    /\ overrides.property_rules[1].match_name = <<>>
    /\ IsSome(overrides.property_rules[1].match_schema)
    /\ Unwrap(overrides.property_rules[1].match_schema).tag = tag

\* the schema T of that rule
RuleSchema == Unwrap(overrides.property_rules[1].match_schema).s

\* the rule matched the property asked about
Matched == Answer = Some(overrides.property_rules[1].match_success)

RECURSIVE Within(_, _, _)

\* subset compatibility as stated: an absent field of T matches anything, a
\* present one needs a present field of C; a map needs len(T) <= len(C) and
\* every key of T in C with a compatible value; every element of a sequence
\* of T is compatible with some element of C
Within(ty, t, c) ==
    IF ty = "JSONSchemaProps"
    THEN \A f \in DOMAIN ComparedFields :
             IsSome(t[f]) => /\ IsSome(c[f])
                             /\ Within(ComparedFields[f], Unwrap(t[f]), Unwrap(c[f]))
    ELSE IF ty = "BTreeMap"
    THEN /\ Len(t) <= Len(c)
         /\ \A i \in 1..Len(t) : \E j \in 1..Len(c) :
                c[j].key = t[i].key /\ Within("JSONSchemaProps", t[i].value, c[j].value)
    ELSE IF IsVec(ty)
    THEN \A i \in 1..Len(t) : \E j \in 1..Len(c) : Within(ElementType(ty), t[i], c[j])
    ELSE IF ty = "JSONSchemaPropsOrArray"
    THEN IF t.tag = "JSONSchemas" /\ c.tag = "JSONSchemas"
         THEN Within("Vec<JSONSchemaProps>", t.ss, c.ss)
         ELSE IF t.tag = "JSONSchemas"
         THEN \A i \in 1..Len(t.ss) : Within("JSONSchemaProps", t.ss[i], c.s)
         ELSE IF c.tag = "JSONSchemas"
         THEN \E j \in 1..Len(c.ss) : Within("JSONSchemaProps", t.s, c.ss[j])
         ELSE Within("JSONSchemaProps", t.s, c.s)
    ELSE IF ty = "JSONSchemaPropsOrBool"
    THEN IF t.tag = "Schema" /\ c.tag = "Schema"
         THEN Within("JSONSchemaProps", t.s, c.s)
         ELSE t = c
    ELSE IF ty = "JSON" THEN t.t = "Null" \/ t = c
    ELSE t = c

\* C19: a rule with Subset(T) matches a property's schema C exactly when every
\* compared field of T is compatible in C: an absent field of T matches
\* anything, a present one needs a present field of C, a map needs
\* len(T) <= len(C) and every key of T in C with a compatible value, and a
\* sequence needs every element of T compatible with some element of C
C19_SubsetMatching ==
    (WasAsked /\ SoleRule("Subset")) =>
        (Matched <=> Within("JSONSchemaProps", RuleSchema, AskedValue))

RECURSIVE Compared(_, _)

\* the value with every field that is not compared taken out, at any depth
Compared(ty, x) ==
    IF ty = "JSONSchemaProps"
    THEN [f \in DOMAIN ComparedFields |->
             IF IsSome(x[f]) THEN Some(Compared(ComparedFields[f], Unwrap(x[f]))) ELSE None]
    ELSE IF ty = "BTreeMap"
    THEN [i \in 1..Len(x) |->
             [key |-> x[i].key, value |-> Compared("JSONSchemaProps", x[i].value)]]
    ELSE IF IsVec(ty) THEN [i \in 1..Len(x) |-> Compared(ElementType(ty), x[i])]
    ELSE IF ty = "JSONSchemaPropsOrArray"
    THEN IF x.tag = "JSONSchemas"
         THEN [tag |-> x.tag, ss |-> Compared("Vec<JSONSchemaProps>", x.ss)]
         ELSE [tag |-> x.tag, s |-> Compared("JSONSchemaProps", x.s)]
    ELSE IF ty = "JSONSchemaPropsOrBool"
    THEN IF x.tag = "Schema"
         THEN [tag |-> x.tag, s |-> Compared("JSONSchemaProps", x.s)]
         ELSE x
    ELSE x

\* C20: a rule with Exhaustive(T) matches a property's schema C exactly when
\* the compared fields of T and C are equal: optional fields both absent or
\* both present, sequences equal position by position, maps with the same keys
\* and equal values
C20_ExhaustiveMatching ==
    (WasAsked /\ SoleRule("Exhaustive")) =>
        (Matched <=> Compared("JSONSchemaProps", RuleSchema)
                         = Compared("JSONSchemaProps", AskedValue))

\* a rule matched a schema that differs from its own in a description only
C20_Witness ==
    /\ WasAsked
    /\ SoleRule("Exhaustive")
    /\ Matched
    /\ RuleSchema # AskedValue
    /\ RuleSchema = ObjNode

-----------------------------------------------------------------------------
(* C21 - the fields a schema test depends on                               *)

\* the fields the comparison is stated to be restricted to
StatedFields ==
    {"type_", "enum_", "items", "additional_items", "properties",
     "additional_properties", "required", "one_of", "all_of", "any_of", "not",
     "x_kubernetes_int_or_string", "x_kubernetes_preserve_unknown_fields",
     "x_kubernetes_map_type"}

\* the same with the list-type extension
StatedFieldsAndListType == StatedFields \cup {"x_kubernetes_list_type"}

RECURSIVE AgreeOn(_, _, _, _)

\* x and y are equal on the given fields, at every depth
AgreeOn(fields, ty, x, y) ==
    IF ty = "JSONSchemaProps"
    THEN \A f \in fields :
             /\ IsSome(x[f]) = IsSome(y[f])
             /\ IsSome(x[f]) => AgreeOn(fields, ComparedFields[f], Unwrap(x[f]), Unwrap(y[f]))
    ELSE IF ty = "BTreeMap"
    THEN /\ Len(x) = Len(y)
         /\ \A i \in 1..Len(x) :
                /\ x[i].key = y[i].key
                /\ AgreeOn(fields, "JSONSchemaProps", x[i].value, y[i].value)
    ELSE IF IsVec(ty)
    THEN /\ Len(x) = Len(y)
         /\ \A i \in 1..Len(x) : AgreeOn(fields, ElementType(ty), x[i], y[i])
    ELSE IF ty = "JSONSchemaPropsOrArray"
    THEN /\ x.tag = y.tag
         /\ IF x.tag = "JSONSchemas"
            THEN AgreeOn(fields, "Vec<JSONSchemaProps>", x.ss, y.ss)
            ELSE AgreeOn(fields, "JSONSchemaProps", x.s, y.s)
    ELSE IF ty = "JSONSchemaPropsOrBool"
    THEN /\ x.tag = y.tag
         /\ IF x.tag = "Schema" THEN AgreeOn(fields, "JSONSchemaProps", x.s, y.s)
            ELSE x = y
    ELSE x = y

\* every schema that agrees with the one asked about on the fields gets the
\* result the asked one got from the rule
SameResult(fields) ==
    \A other \in SchemaForms :
        AgreeOn(fields, "JSONSchemaProps", AskedValue, other) =>
            (PropertySchema_eq(Unwrap(overrides.property_rules[1].match_schema), other)
                 <=> Matched)

\* the rule's only test is its schema test, of either kind
SoleSchemaRule == SoleRule("Subset") \/ SoleRule("Exhaustive")

\* C21 as stated: the result of a rule's schema test depends only on type,
\* enum, items, additionalItems, properties, additionalProperties, required,
\* oneOf, allOf, anyOf, not, int-or-string, preserve-unknown-fields and
\* map-type: schemas that agree on these get the same result from every rule
C21_ComparedSetStated == (WasAsked /\ SoleSchemaRule) => SameResult(StatedFields)

\* C21 amended: the result depends only on the fields above and on list-type
C21_ComparedSet == (WasAsked /\ SoleSchemaRule) => SameResult(StatedFieldsAndListType)

\* a rule matched a schema that carries a description the rule's schema lacks
C21_Witness ==
    /\ WasAsked
    /\ SoleSchemaRule
    /\ Matched
    /\ RuleSchema = Str
    /\ AskedValue = [Str EXCEPT !.description = Some("Name")]

-----------------------------------------------------------------------------
(* Loading rule documents: Overrides::from_paths, impl Extend for Overrides *)

\* the buckets of other appended to the buckets of self, new names inserted
MergeIndex(mine, theirs) ==
    [n \in (DOMAIN mine) \cup (DOMAIN theirs) |->
        IF n \notin DOMAIN theirs THEN mine[n]
        ELSE IF n \in DOMAIN mine THEN mine[n] \o theirs[n]
        ELSE theirs[n]]

RECURSIVE Dedup(_)

\* Vec::dedup keeping every element
Dedup_none(rules) == rules

\* Vec::dedup: of consecutive equal elements the first is kept
Dedup(rules) ==
    IF Len(rules) < 2 THEN rules
    ELSE IF rules[1] = rules[2] THEN Dedup(<<rules[1]>> \o SubSeq(rules, 3, Len(rules)))
    ELSE <<rules[1]>> \o Dedup(Tail(rules))

\* Extend::extend with one Overrides
Overrides_extend(self, other) ==
    [property_index |-> MergeIndex(self.property_index, other.property_index),
     property_rules |-> Dedup(self.property_rules \o other.property_rules)]

MaxLoads == 2

\* the rules of the documents, two of them with patterns that do not compile
LoadRules ==
    {PropertyRule(<<Exact("foo")>>, None, Replace("Foo")),
     PropertyRule(<<Regex("^fo")>>, None, Omit),
     PropertyRule(<<Exact("foo"), Regex("^bar$")>>, None, Replace("FooBar")),
     PropertyRule(<<Regex("("), Exact("bar")>>, None, Omit),
     PropertyRule(<<Regex("("), Regex("[a")>>, None, Omit)}

\* a document: the rules under propertyRules in their order
RuleDocuments == UNION {[1..n -> LoadRules] : n \in 1..MaxRules}

LoadInit ==
    /\ overrides = NoOverrides
    /\ schema = EmptySchema
    /\ kind = ""
    /\ cfg = [no_condition |-> FALSE, no_object_reference |-> FALSE,
              map |-> "BTreeMap", relaxed |-> FALSE]
    /\ pc = "start"
    /\ result = None
    /\ catalog = <<>>

\* the documents loaded so far
Loaded == IF IsSome(result) THEN Unwrap(result).loaded ELSE <<>>

\* one step of the fold of from_paths: the document is merged, or its errors
\* end the fold and the rules gathered so far are dropped with it
Folded(new, document) ==
    IF new.ok
    THEN /\ overrides' = Overrides_extend(overrides, new.val)
         /\ result' = Some([loaded |-> Append(Loaded, document), errors |-> <<>>])
         /\ pc' = "loaded"
    ELSE /\ overrides' = NoOverrides
         /\ result' = Some([loaded |-> Append(Loaded, document), errors |-> new.err])
         /\ pc' = "failed"

\* overrides.extend([serde_yaml::from_reader(File::open(path)?)?])
Load ==
    /\ pc \in {"start", "loaded"}
    /\ Len(Loaded) < MaxLoads
    /\ \E document \in RuleDocuments : Folded(Overrides_new(document), document)
    /\ UNCHANGED <<schema, kind, cfg, catalog>>

NextLoad == Load

SpecLoad == LoadInit /\ [][NextLoad]_vars

\* the document of the last load
LastDocument == Loaded[Len(Loaded)]

\* the patterns of a document that do not compile, by rule and position
BrokenPatterns(document) ==
    {<<i, j>> \in (1..Len(document)) \X (1..2) :
        /\ j <= Len(document[i].match_name)
        /\ IsRegexName(document[i].match_name[j])
        /\ ~Compiles(document[i].match_name[j].text)}

\* C22: a load fails exactly when a pattern of the document does not compile;
\* the failure carries one error for every pattern that does not compile, and
\* leaves no Overrides
C22_LoadErrors ==
    (pc \in {"loaded", "failed"}) =>
        /\ pc = "failed" <=> BrokenPatterns(LastDocument) # {}
        /\ pc = "failed" =>
               /\ Len(Unwrap(result).errors) = Cardinality(BrokenPatterns(LastDocument))
               /\ overrides = NoOverrides

-----------------------------------------------------------------------------
(* C23 - the merge of the loaded documents                                 *)

RECURSIVE Concatenated(_, _)

\* the rules of the documents i.. in load order
Concatenated(documents, i) ==
    IF i > Len(documents) THEN <<>>
    ELSE documents[i] \o Concatenated(documents, i + 1)

\* what one Overrides::new gives for all rules of the loaded documents
OfAllRules == Overrides_new(Concatenated(Loaded, 1)).val

\* the positions of a list that hold the first occurrence of their element
FirstOccurrences(list) == {i \in 1..Len(list) : \A j \in 1..(i - 1) : list[j] # list[i]}

\* the positions of a list that do not repeat the element right before them
RunStarts(list) == {i \in 1..Len(list) : i = 1 \/ list[i - 1] # list[i]}

\* the list is the other list taken at the positions, in order
TakenAt(list, positions, from) ==
    /\ Len(list) = Cardinality(positions)
    /\ \A i \in positions : list[Cardinality({j \in positions : j <= i})] = from[i]

\* each bucket holds the rules of the earlier documents, then of the later
BucketsInLoadOrder == overrides.property_index = OfAllRules.property_index

\* C23 as stated: after loading documents the buckets hold the rules in load
\* order and the linear list is the concatenation in load order with every
\* duplicate removed, wherever it stood
C23_MergeStated ==
    pc = "loaded" =>
        /\ BucketsInLoadOrder
        /\ TakenAt(overrides.property_rules, FirstOccurrences(OfAllRules.property_rules),
                   OfAllRules.property_rules)

\* C23 amended: the linear list is the concatenation in load order with each
\* run of adjacent equal rules reduced to its first rule
C23_Merge ==
    pc = "loaded" =>
        /\ BucketsInLoadOrder
        /\ TakenAt(overrides.property_rules, RunStarts(OfAllRules.property_rules),
                   OfAllRules.property_rules)

\* a document with one rule was loaded twice: its bucket has two entries, the
\* linear list one
C23_Witness ==
    /\ pc = "loaded"
    /\ Len(Loaded) = 2
    /\ Loaded[1] = Loaded[2]
    /\ Len(Loaded[1]) = 1
    /\ Len(Bucket(overrides, "foo")) = 2
    /\ Len(overrides.property_rules) = 1

----------------------------------------------------------------------------
(* analyze on schemas that vary the kind, the spelling of the keys and the *)
(* nesting of arrays, maps and objects on the way to a struct              *)

NameKinds == {"Agent", "ArgoCDExport", "postgresql"}

NameKeys == {"validations_info", "b_c", "b", "-", "_"}

InnerKeys == {"c", "_", "zone"}

OneProperty(key, value) == Object(BTreeInsert(<<>>, key, value), None)

NameLeaf == OneProperty("id", Str)

\* the ways a struct is wrapped in arrays and maps
Wraps(v) ==
    {v, MapOf(v), MapOf(ArrayOf(v)), ArrayOf(MapOf(v)), ArrayOf(MapOf(ArrayOf(v))),
     MapOf(MapOf(v))}
    \cup {NestedArray(d, v) : d \in 1..MaxArrayDepth}

NameValues ==
    Wraps(NameLeaf)
    \cup UNION {Wraps(OneProperty(k, w)) :
                   k \in InnerKeys,
                   w \in {NameLeaf, ArrayOf(NameLeaf),
                          ArrayOf(MapOf(ArrayOf(NameLeaf)))}}
    \cup {[Object(<<>>, None) EXCEPT !.x_kubernetes_preserve_unknown_fields = Some(TRUE)],
          ArrayOf([Object(<<>>, None) EXCEPT
                      !.x_kubernetes_preserve_unknown_fields = Some(TRUE)])}

NameSchemas ==
    {OneProperty(k, v) : k \in NameKeys, v \in NameValues}
    \* the property is required: its member is not wrapped in Option
    \cup {Object(BTreeInsert(<<>>, k, v), Some(<<k>>)) :
            k \in {"-", "_", "b"},
            v \in {NameLeaf,
                   Object(BTreeInsert(<<>>, "_", NameLeaf), Some(<<"_">>)),
                   Object(BTreeInsert(<<>>, "c", NameLeaf), Some(<<"c">>))}}

NameConfigs == {c \in Configs : ~c.no_condition /\ ~c.no_object_reference}

NamesInit ==
    /\ schema \in NameSchemas
    /\ kind \in NameKinds
    /\ cfg \in NameConfigs
    /\ pc = "start"
    /\ result = None
    /\ catalog = <<>>
    /\ overrides = NoOverrides

NextNames == Analyze

SpecNames == NamesInit /\ [][NextNames]_vars

----------------------------------------------------------------------------
(* C24 - Container naming: every struct container of a returned catalog    *)
(* is the struct of an object reached from the root by a key path k1..kn   *)
(* (array items and additionalProperties add no segment), and its name is  *)
(* UpperCamel(kind) + UpperCamel(k1) + ... + UpperCamel(kn); the root is   *)
(* named UpperCamel(kind).                                                 *)
MembersAre(c, node) ==
    /\ Len(c.members) = Len(PropsOf(node))
    /\ \A i \in 1..Len(c.members) : c.members[i].name = PropsOf(node)[i].key

C24_ContainerNaming ==
    Succeeded =>
        /\ Len(Catalog) > 0
        /\ Catalog[1].name = to_upper_camel_case(kind)
        /\ \A i \in 1..Len(Catalog) :
              ~Catalog[i].is_enum =>
                  \E o \in AllOwners :
                      o.name = Catalog[i].name /\ MembersAre(Catalog[i], o.node)

----------------------------------------------------------------------------
(* C25 - Scalar type by format: an integer or number node resolves to the  *)
(* primitive its own format selects (i64 / f64 without a known format),    *)
(* as a direct property, as the additionalProperties value of a property   *)
(* (Map<String, T>) and as the element of an array property (Vec<T>).      *)
IsNumeric(e) == StrOrDefault(e.type_) \in {"integer", "number"} /\ IsNone(e.enum_)

\* the map of the configured kind from strings to t
MapOfType(t) == cfg.map \o "<String, " \o t \o ">"

\* the property is a map whose values are the node s
IsMapOf(v) ==
    /\ StrOrDefault(v.type_) = "object"
    /\ IsSchemaItem(v.additional_properties)

MapValue(v) == Unwrap(v.additional_properties).s

DirectByFormat(o, i) ==
    IsNumeric(ValueOf(o, i)) =>
        MemberOf(o, i).type_ =
            Wrapped(ScalarType(ValueOf(o, i)), KeyOf(o, i), ReqsOf(o.node))

MapValueByFormat(o, i) ==
    (IsMapOf(ValueOf(o, i)) /\ IsNumeric(MapValue(ValueOf(o, i)))) =>
        MemberOf(o, i).type_ =
            Wrapped(MapOfType(ScalarType(MapValue(ValueOf(o, i)))),
                    KeyOf(o, i), ReqsOf(o.node))

ElementByFormat(o, i) ==
    (ArrayDepth(ValueOf(o, i)) = 1 /\ IsNumeric(ArrayElement(ValueOf(o, i)))) =>
        MemberOf(o, i).type_ =
            Wrapped(VecOf(1, ScalarType(ArrayElement(ValueOf(o, i)))),
                    KeyOf(o, i), ReqsOf(o.node))

C25_ScalarByFormat ==
    Succeeded =>
        \A o \in RealizedOwners : \A i \in PropIndex(o) :
            DirectByFormat(o, i) /\ MapValueByFormat(o, i) /\ ElementByFormat(o, i)

----------------------------------------------------------------------------
(* C26 - Inline maps: a property that is a map whose values have a scalar  *)
(* type (string, boolean, integer, number), or are such maps themselves,   *)
(* gets a member typed Map<String, V> (nested accordingly, the map kind    *)
(* taken from the config) and no container; so does an array of such maps  *)
(* (Vec<Map<String, V>>), and a root whose only property is one gives a    *)
(* catalog of the root alone.                                              *)
HasScalarType(e) == StrOrDefault(e.type_) \in {"string", "boolean", "integer", "number"}

RECURSIVE IsInlineMap(_)
IsInlineMap(v) ==
    /\ IsMapOf(v)
    /\ HasScalarType(MapValue(v)) \/ IsInlineMap(MapValue(v))

RECURSIVE InlineType(_)
InlineType(v) ==
    IF IsInlineMap(v) THEN MapOfType(InlineType(MapValue(v))) ELSE ScalarType(v)

NoContainerFor(o, i) == ~InCatalog(o.name \o to_upper_camel_case(KeyOf(o, i)))

InlinedMap(o, i) ==
    IsInlineMap(ValueOf(o, i)) =>
        /\ MemberOf(o, i).type_ =
              Wrapped(InlineType(ValueOf(o, i)), KeyOf(o, i), ReqsOf(o.node))
        /\ NoContainerFor(o, i)

InlinedMapElement(o, i) ==
    (ArrayDepth(ValueOf(o, i)) = 1 /\ IsInlineMap(ArrayElement(ValueOf(o, i)))) =>
        /\ MemberOf(o, i).type_ =
              Wrapped(VecOf(1, InlineType(ArrayElement(ValueOf(o, i)))),
                      KeyOf(o, i), ReqsOf(o.node))
        /\ NoContainerFor(o, i)

\* the root has one property, a map of scalars or an array of such maps
OnlyInlineMaps ==
    /\ StrOrDefault(schema.type_) = "object"
    /\ IsNone(schema.additional_properties)
    /\ Len(PropsOf(schema)) = 1
    /\ \/ IsInlineMap(PropsOf(schema)[1].value)
       \/ /\ ArrayDepth(PropsOf(schema)[1].value) = 1
          /\ IsInlineMap(ArrayElement(PropsOf(schema)[1].value))

C26_InlineMaps ==
    Succeeded =>
        /\ \A o \in RealizedOwners : \A i \in PropIndex(o) :
              InlinedMap(o, i) /\ InlinedMapElement(o, i)
        /\ OnlyInlineMaps =>
              /\ Len(Catalog) = 1
              /\ Catalog[1].name = to_upper_camel_case(kind)
              /\ Catalog[1].level = 0

\* an array of string maps under the root: Vec<Map<String, String>> and the
\* root alone
C26_Witness ==
    /\ Succeeded
    /\ OnlyInlineMaps
    /\ PropsOf(schema)[1].value = ArrayOf(MapOf(Str))
    /\ PropsOf(schema)[1].key = "zone"
    /\ cfg.map = "HashMap"
    /\ Len(Catalog) = 1
    /\ Catalog[1].members[1].type_ = "Option<Vec<HashMap<String, String>>>"

----------------------------------------------------------------------------
(* C27 - Ignored top-level keys: the properties of the root keyed          *)
(* metadata, apiVersion or kind give no container, struct or enum, neither *)
(* for themselves nor for anything below them; one level down the same     *)
(* keys are analysed like any other key.                                   *)
TopLevelKeys == {"metadata", "apiVersion", "kind"}

\* no container of the catalog is named after the stack or a longer one
NothingBelow(stack) == \A i \in 1..Len(Catalog) : ~StartsWith(Catalog[i].name, stack)

\* the root holds the single property spec, an object with a single property
OneLevelDown ==
    /\ StrOrDefault(schema.type_) = "object"
    /\ IsNone(schema.additional_properties)
    /\ Len(PropsOf(schema)) = 1
    /\ PropsOf(schema)[1].key = "spec"
    /\ Len(PropsOf(PropsOf(schema)[1].value)) = 1

SpecNode == PropsOf(schema)[1].value

\* the schema with the property below spec keyed k instead
Rekeyed(k) ==
    [schema EXCEPT !.properties =
        Some(<<[key |-> "spec",
                value |-> [SpecNode EXCEPT !.properties =
                              Some(<<[key |-> k,
                                      value |-> PropsOf(SpecNode)[1].value]>>)]]>>)]

\* the name of what the property below spec declares
LevelOneName ==
    to_upper_camel_case(kind) \o "Spec" \o to_upper_camel_case(PropsOf(SpecNode)[1].key)

\* what a result is made of, the names left aside
ShapeOf(r) ==
    IF ~r.ok THEN <<>>
    ELSE <<[i \in 1..Len(r.val) |->
              [is_enum |-> r.val[i].is_enum, level |-> r.val[i].level,
               members |-> Len(r.val[i].members)]]>>

C27_IgnoredKeys ==
    Done =>
        /\ Succeeded =>
              \A o \in AllOwners : \A i \in PropIndex(o) :
                  (o.level = 0 /\ KeyOf(o, i) \in TopLevelKeys)
                  => NothingBelow(o.name \o to_upper_camel_case(KeyOf(o, i)))
        /\ (OneLevelDown /\ PropsOf(SpecNode)[1].key \in TopLevelKeys) =>
              /\ ShapeOf(Unwrap(result)) = ShapeOf(analyze(Rekeyed("zone"), kind, cfg))
              /\ (Succeeded /\ IsEnumSource(PropsOf(SpecNode)[1].value)) =>
                    /\ InCatalog(LevelOneName)
                    /\ ContainerNamed(LevelOneName).is_enum

\* a root property kind that is a string enum: the root alone is returned
C27_Witness ==
    /\ Succeeded
    /\ PropsOf(schema) = <<[key |-> "kind", value |-> WithEnum(Str, EnumLits(2))]>>
    /\ Len(Catalog) = 1
    /\ Catalog[1].members[1].name = "kind"

----------------------------------------------------------------------------
(* C28 - Referential integrity: in a returned catalog, every member of a   *)
(* container other than the root whose type names a generated container    *)
(* (a name that continues the kind's, bare or inside Option, Vec or a map) *)
(* has a container of exactly that name in the catalog.                    *)
Wrappers == <<"Option<", "Vec<", "BTreeMap<String, ", "HashMap<String, ">>

\* the text between a wrapper's prefix and its closing bracket
Inside(type, prefix) == SubSeq(type, Len(prefix) + 1, Len(type) - 1)

\* the type a member's type is built around
RECURSIVE Innermost(_)
Innermost(type) ==
    IF \E w \in 1..Len(Wrappers) : StartsWith(type, Wrappers[w])
    THEN Innermost(Inside(type, Wrappers[CHOOSE w \in 1..Len(Wrappers) :
                                             StartsWith(type, Wrappers[w])]))
    ELSE type

NamesGenerated(type) == StartsWith(Innermost(type), to_upper_camel_case(kind))

C28_ReferentialIntegrity ==
    Succeeded =>
        \A i \in 1..Len(Catalog) :
            Catalog[i].name # to_upper_camel_case(kind) =>
                \A k \in 1..Len(Catalog[i].members) :
                    NamesGenerated(Catalog[i].members[k].type_)
                    => InCatalog(Innermost(Catalog[i].members[k].type_))

----------------------------------------------------------------------------
(* C29 - Derivability check terminates: in a returned catalog no container *)
(* has a member whose type names the container itself or a container that  *)
(* leads back to it, and can_derive_default, called on any container of    *)
(* the catalog, returns without setting a memo cell twice.                 *)
RECURSIVE LeadsTo(_, _, _, _)

\* container i reaches container t through at most n member types
LeadsTo(containers, i, t, n) ==
    /\ n > 0
    /\ \E k \in 1..Len(containers[i].members) :
          \E j \in 1..Len(containers) :
              /\ containers[j].name = Innermost(containers[i].members[k].type_)
              /\ j = t \/ LeadsTo(containers, j, t, n - 1)

C29_DeriveTerminates ==
    Succeeded =>
        \A i \in 1..Len(Catalog) :
            /\ ~LeadsTo(Catalog, i, i, Len(Catalog))
            /\ can_derive_default(Catalog, i, {}).status = "returned"

----------------------------------------------------------------------------
(* C30 - Root and levels: the catalog returned for an object schema starts *)
(* with the root, named after the kind and the only container of level 0;  *)
(* every other container, struct or enum, has a level of at least 1 and    *)
(* comes after a container with a member whose type names it.              *)
RootFirst ==
    /\ Len(Catalog) > 0
    /\ Catalog[1].name = to_upper_camel_case(kind)
    /\ Catalog[1].level = 0

BelowRoot(i) == Catalog[i].level >= 1

\* an earlier container has a member whose type names container i
DeclaredBefore(i) ==
    \E j \in 1..(i - 1) : \E k \in 1..Len(Catalog[j].members) :
        Innermost(Catalog[j].members[k].type_) = Catalog[i].name

C30_RootAndLevels ==
    (Succeeded /\ StrOrDefault(schema.type_) = "object"
               /\ IsNone(schema.additional_properties)) =>
        /\ RootFirst
        /\ \A i \in 2..Len(Catalog) : BelowRoot(i) /\ DeclaredBefore(i)

====
